---- MODULE Spec2Model ----
(***************************************************************************)
(* Web editor v2 (mcp-chrome): the locator-based transaction manager       *)
(* (undo/redo of inline style edits) over a small live document.           *)
(*                                                                         *)
(* Strings that the code converts (trim, kebab-case) are sequences of      *)
(* one-character strings, so that the conversions are computed.  An        *)
(* optional value (T | null) is a sequence of length 0 or 1.               *)
(***************************************************************************)
EXTENDS Integers, Sequences, FiniteSets, TLC

(***************************************************************************)
(* Bounds of the model                                                     *)
(***************************************************************************)
\* transactionSeq never passes MaxSeq under Spec and SpecCommits (at most
\* MaxSeq beginStyle/applyStyle/recordStyle calls), MaxEdits under SpecEdits
MaxSeq == 2
MaxEdits == 3
\* now() never passes MaxTime.
MaxTime == 2
\* handles a caller keeps at the same time
MaxHandles == 2
\* the largest options.maxHistory a manager is constructed with
MaxHistoryOption == 3

(***************************************************************************)
(* Option values and small helpers                                         *)
(***************************************************************************)
None == <<>>
Some(x) == <<x>>
Range(s) == {s[i] : i \in 1..Len(s)}
Max(a, b) == IF a >= b THEN a ELSE b
Abs(a) == IF a >= 0 THEN a ELSE 0 - a
Top(s) == s[Len(s)]
Pop(s) == SubSeq(s, 1, Len(s) - 1)

(***************************************************************************)
(* String helpers: String.prototype.trim / toLowerCase                     *)
(***************************************************************************)
RECURSIVE trimStart(_)
trimStart(s) == IF s # <<>> /\ Head(s) = " " THEN trimStart(Tail(s)) ELSE s

RECURSIVE trimEnd(_)
trimEnd(s) == IF s # <<>> /\ s[Len(s)] = " " THEN trimEnd(SubSeq(s, 1, Len(s) - 1)) ELSE s

trim(s) == trimEnd(trimStart(s))

isUpper(c) == c \in {"B", "C"}
toLowerChar(c) == CASE c = "B" -> "b" [] c = "C" -> "c" [] OTHER -> c
toLowerCase(s) == [i \in 1..Len(s) |-> toLowerChar(s[i])]

\* p.replace(/[A-Z]/g, (m) => `-${m.toLowerCase()}`)
RECURSIVE camelToKebab(_)
camelToKebab(s) ==
  IF s = <<>> THEN <<>>
  ELSE IF isUpper(Head(s)) THEN <<"-", toLowerChar(Head(s))>> \o camelToKebab(Tail(s))
  ELSE <<Head(s)>> \o camelToKebab(Tail(s))

normalizePropertyName(property) ==
  LET p == trim(property) IN
  IF p = <<>> THEN <<>>
  ELSE IF Len(p) >= 2 /\ p[1] = "-" /\ p[2] = "-" THEN p
  ELSE IF "-" \in Range(p) THEN toLowerCase(p)
  ELSE toLowerCase(camelToKebab(p))

(***************************************************************************)
(* The inputs callers pass                                                 *)
(***************************************************************************)
\* " c" (color, padded), "bC" (camelCase) and "".
RawProps == { <<" ", "c">>, <<"b", "C">>, <<>> }
\* "" and " r " (red, padded)
RawValues == { <<>>, <<" ", "r", " ">> }
\* what a caller of recordStyle may also pass as the value before: "r"
RecordedValues == RawValues \cup { <<"r">> }

(***************************************************************************)
(* Documents.  An element hangs below <body>, below another element, or    *)
(* in the shadow root of a host, or is detached; its siblings stand in the *)
(* order of d.order.  An element has a tag, an id, a class list, a list of *)
(* attributes <<name, value>> and, if it is a host, a shadow root that is  *)
(* open or closed.  Elements carry no text.                                *)
(***************************************************************************)
Body == [kind |-> "body", of |-> "body"]
Document == [kind |-> "document", of |-> "document"]
Nowhere == [kind |-> "none", of |-> "none"]
Inside(e) == [kind |-> "element", of |-> e]
ShadowRootOf(host) == [kind |-> "shadow", of |-> host]

(***************************************************************************)
(* The live document: <body> with the div elements e1 (id "a") and e2 (no  *)
(* id) as its only children, in this order.  The page may detach an        *)
(* element and attach it again at its place; no element carries a class,   *)
(* a whitelisted attribute, text or a shadow root.                         *)
(***************************************************************************)
Elements == {"e1", "e2"}
BodyOrder == <<"e1", "e2">>
\* the elements the page detaches and attaches again
Removable == {"e1"}
\* the elements the caller edits
Targets == {"e1"}

\* the live document in which the elements of att are attached
Page(att) ==
  [ order |-> BodyOrder,
    parent |-> [e \in Elements |-> IF e \in att THEN Body ELSE Nowhere],
    tag |-> [e \in Elements |-> "div"],
    id |-> [e \in Elements |-> IF e = "e1" THEN <<"a">> ELSE <<>>],
    classes |-> [e \in Elements |-> <<>>],
    attrs |-> [e \in Elements |-> <<>>],
    mode |-> [e \in Elements |-> "none"] ]

tagName(d, e) == d.tag[e]
idOf(d, e) == d.id[e]

\* container.children
children(d, container) == SelectSeq(d.order, LAMBDA e : d.parent[e] = container)

indexOf(seq, x) == IF x \in Range(seq) THEN (CHOOSE i \in 1..Len(seq) : seq[i] = x) - 1 ELSE 0 - 1

\* element.getRootNode(): the document, a shadow root, or the top of a
\* detached subtree
RECURSIVE getRootNode(_, _)
getRootNode(d, e) ==
  LET parentNode == d.parent[e] IN
  IF parentNode.kind = "element" THEN getRootNode(d, parentNode.of)
  ELSE IF parentNode.kind = "body" THEN Document
  ELSE parentNode

getQueryRoot(d, element) ==
  LET root == getRootNode(d, element) IN IF root.kind = "shadow" THEN root ELSE Document

\* getAttribute(name): the value, or null
getAttribute(d, e, name) ==
  LET hits == SelectSeq(d.attrs[e], LAMBDA a : a[1] = name) IN
  IF hits = <<>> THEN None ELSE Some(hits[1][2])

(***************************************************************************)
(* Selectors.  A selector is a chain of compound selectors joined by the   *)
(* child combinator, anchored ("body > ...") or not.  A compound selector  *)
(* constrains the tag ("" for any), the id (<<>> for any), one attribute   *)
(* (<<>> for none), classes, and the position among the siblings of its    *)
(* type (0 for any).  A selector without a compound is malformed, and      *)
(* querySelectorAll throws on it.                                          *)
(***************************************************************************)
Compound(tag, id, attr, classes, nth) ==
  [ tag |-> tag, id |-> id, attr |-> attr, classes |-> classes, nth |-> nth ]

Selector(anchored, segments) == [ anchored |-> anchored, segments |-> segments ]

sameTagSiblings(d, e) ==
  IF d.parent[e] = Nowhere THEN <<>>
  ELSE SelectSeq(children(d, d.parent[e]), LAMBDA s : tagName(d, s) = tagName(d, e))

matchesCompound(d, e, c) ==
  /\ c.tag # "" => tagName(d, e) = c.tag
  /\ c.id # <<>> => idOf(d, e) = c.id
  /\ c.attr # <<>> => getAttribute(d, e, c.attr[1]) = Some(c.attr[2])
  /\ \A i \in 1..Len(c.classes) : c.classes[i] \in Range(d.classes[e])
  /\ c.nth # 0 => indexOf(sameTagSiblings(d, e), e) + 1 = c.nth

RECURSIVE matchesSegments(_, _, _, _)
matchesSegments(d, e, segments, anchored) ==
  /\ matchesCompound(d, e, segments[Len(segments)])
  /\ IF Len(segments) = 1 THEN anchored => d.parent[e] = Body
     ELSE /\ d.parent[e].kind = "element"
          /\ matchesSegments(d, d.parent[e].of, SubSeq(segments, 1, Len(segments) - 1),
                             anchored)

isMalformed(sel) == sel.segments = <<>>

\* root.querySelectorAll(sel) for a selector that is well formed: the
\* elements of the tree of root that match, in document order
querySelectorAll(d, root, sel) ==
  SelectSeq(d.order, LAMBDA e : /\ getRootNode(d, e) = root
                                /\ matchesSegments(d, e, sel.segments, sel.anchored))

safeQuerySelector(d, root, sel) ==
  IF isMalformed(sel) THEN None
  ELSE LET m == querySelectorAll(d, root, sel) IN IF m = <<>> THEN None ELSE Some(m[1])

isUnique(d, root, sel) == ~isMalformed(sel) /\ Len(querySelectorAll(d, root, sel)) = 1

\* the first selector of the list that isUnique, or null
RECURSIVE firstUnique(_, _, _)
firstUnique(d, root, selectors) ==
  IF selectors = <<>> THEN None
  ELSE IF isUnique(d, root, Head(selectors)) THEN Some(Head(selectors))
  ELSE firstUnique(d, root, Tail(selectors))

\* tryIdSelector that never finds the id unique
tryIdSelectorNever(element, d, root) == None

tryIdSelector(element, d, root) ==
  LET id == trim(idOf(d, element))
      selector == Selector(FALSE, << Compound("", id, <<>>, <<>>, 0) >>)
  IN  IF id = <<>> THEN None
      ELSE IF isUnique(d, root, selector) THEN Some(selector) ELSE None

UNIQUE_DATA_ATTRS ==
  << "data-testid", "data-test-id", "data-test", "data-qa", "data-cy", "name", "title",
     "alt" >>

RECURSIVE tryDataAttrs(_, _, _, _)
tryDataAttrs(attrs, element, d, root) ==
  IF attrs = <<>> THEN None
  ELSE LET attr == Head(attrs)
           raw == getAttribute(d, element, attr)
           value == IF raw = None THEN <<>> ELSE trim(raw[1])
           attrOnly == Selector(FALSE, << Compound("", <<>>, <<attr, value>>, <<>>, 0) >>)
           withTag == Selector(FALSE, << Compound(tagName(d, element), <<>>,
                                                  <<attr, value>>, <<>>, 0) >>)
       IN  IF value = <<>> THEN tryDataAttrs(Tail(attrs), element, d, root)
           ELSE IF isUnique(d, root, attrOnly) THEN Some(attrOnly)
           ELSE IF isUnique(d, root, withTag) THEN Some(withTag)
           ELSE tryDataAttrs(Tail(attrs), element, d, root)

tryDataAttrSelector(element, d, root) == tryDataAttrs(UNIQUE_DATA_ATTRS, element, d, root)

MAX_CLASS_COMBO_DEPTH == 3

\* /^[a-zA-Z_][a-zA-Z0-9_-]*$/ over the characters of the model
isClassName(c) ==
  /\ c # <<>>
  /\ c[1] \in {"a", "b", "c", "k", "m", "r", "B", "C", "_"}
  /\ \A i \in 2..Len(c) : c[i] \in {"a", "b", "c", "k", "m", "r", "B", "C", "_", "-", "9"}

\* the pairs i < j below limit, as the two loops visit them
RECURSIVE classPairs(_, _, _)
classPairs(i, j, limit) ==
  IF i >= limit THEN <<>>
  ELSE IF j > limit THEN classPairs(i + 1, i + 2, limit)
  ELSE << <<i, j>> >> \o classPairs(i, j + 1, limit)

tryClassSelector(element, d, root) ==
  LET tag == tagName(d, element)
      classes == SelectSeq(d.classes[element], isClassName)
      limit == IF Len(classes) < MAX_CLASS_COMBO_DEPTH THEN Len(classes)
               ELSE MAX_CLASS_COMBO_DEPTH
      pairs == classPairs(1, 2, limit)
      single == [i \in 1..Len(classes) |->
                   Selector(FALSE, << Compound("", <<>>, <<>>, <<classes[i]>>, 0) >>)]
      tagged == [i \in 1..Len(classes) |->
                   Selector(FALSE, << Compound(tag, <<>>, <<>>, <<classes[i]>>, 0) >>)]
      combos == [i \in 1..Len(pairs) |->
                   Selector(FALSE, << Compound("", <<>>, <<>>,
                                               << classes[pairs[i][1]], classes[pairs[i][2]] >>,
                                               0) >>)]
  IN  IF classes = <<>> THEN None ELSE firstUnique(d, root, single \o tagged \o combos)

\* the segments from the child of the body, or of the shadow root, down to
\* current
RECURSIVE pathSegments(_, _)
pathSegments(d, current) ==
  LET same == sameTagSiblings(d, current)
      selector == Compound(tagName(d, current), <<>>, <<>>, <<>>,
                           IF Len(same) > 1 THEN indexOf(same, current) + 1 ELSE 0)
  IN  IF d.parent[current].kind = "element"
      THEN Append(pathSegments(d, d.parent[current].of), selector)
      ELSE << selector >>

buildPathSelector(element, d, root) ==
  Selector(root.kind = "document", pathSegments(d, element))

DEFAULT_MAX_CANDIDATES == 5

\* candidates.push unless null or already included
pushCandidate(candidates, selector) ==
  IF selector = None \/ selector[1] \in Range(candidates) THEN candidates
  ELSE Append(candidates, selector[1])

generateSelectorCandidates(element, d, root, maxCandidates) ==
  LET c1 == pushCandidate(<<>>, tryIdSelector(element, d, root))
      c2 == pushCandidate(c1, tryDataAttrSelector(element, d, root))
      c3 == pushCandidate(c2, tryClassSelector(element, d, root))
      c4 == pushCandidate(c3, Some(buildPathSelector(element, d, root)))
  IN  SubSeq(c4, 1, IF Len(c4) < Max(1, maxCandidates) THEN Len(c4) ELSE Max(1, maxCandidates))

\* the first candidate, or null for ''
generateCssSelector(element, d, root) ==
  LET candidates == generateSelectorCandidates(element, d, root, DEFAULT_MAX_CANDIDATES)
  IN  IF candidates = <<>> THEN None ELSE Some(candidates[1])

FINGERPRINT_MAX_CLASSES == 8

\* the parts of "tag|id=...|class=..." (no element has text)
computeFingerprint(d, element) ==
  LET id == trim(idOf(d, element))
      all == d.classes[element]
      classes == SubSeq(all, 1, IF Len(all) < FINGERPRINT_MAX_CLASSES THEN Len(all)
                                ELSE FINGERPRINT_MAX_CLASSES)
  IN  << <<"tag", tagName(d, element)>> >>
      \o (IF id # <<>> THEN << <<"id", id>> >> ELSE <<>>)
      \o (IF classes # <<>> THEN << <<"class", classes>> >> ELSE <<>>)

\* child indices from the root: html is child 0 of the document, body
\* child 1 of html
RECURSIVE computeDomPath(_, _)
computeDomPath(d, element) ==
  LET parentNode == d.parent[element]
      index == indexOf(children(d, parentNode), element)
  IN  IF parentNode.kind = "element" THEN Append(computeDomPath(d, parentNode.of), index)
      ELSE IF parentNode.kind = "body" THEN <<0, 1, index>>
      ELSE IF parentNode.kind = "shadow" THEN <<index>>
      ELSE <<>>

\* the selectors of the hosts around the element, outer to inner; empty for
\* undefined
RECURSIVE getShadowHostChain(_, _)
getShadowHostChain(d, current) ==
  LET root == getRootNode(d, current)
      host == root.of
      hostSelector == generateCssSelector(host, d, getQueryRoot(d, host))
  IN  IF root.kind # "shadow" THEN <<>>
      ELSE IF hostSelector = None THEN <<>>
      ELSE Append(getShadowHostChain(d, host), hostSelector[1])

createElementLocator(element, d) ==
  [ selectors |-> generateSelectorCandidates(element, d, getQueryRoot(d, element),
                                             DEFAULT_MAX_CANDIDATES),
    fingerprint |-> computeFingerprint(d, element),
    path |-> computeDomPath(d, element),
    shadowHostChain |-> getShadowHostChain(d, element) ]

isSelectorUnique(d, root, sel) ==
  ~isMalformed(sel) /\ Len(querySelectorAll(d, root, sel)) = 1

findPart(parts, key) ==
  LET hits == SelectSeq(parts, LAMBDA p : p[1] = key) IN
  IF hits = <<>> THEN None ELSE Some(hits[1])

\* verifyFingerprint that compares the tags only
verifyFingerprintTagOnly(d, element, fingerprint) ==
  fingerprint[1] = computeFingerprint(d, element)[1]

verifyFingerprint(d, element, fingerprint) ==
  LET currentParts == computeFingerprint(d, element)
      storedId == findPart(Tail(fingerprint), "id")
      currentId == findPart(Tail(currentParts), "id")
  IN  /\ fingerprint[1] = currentParts[1]
      /\ storedId # None => storedId = currentId

\* host.shadowRoot: null for a closed root and for an element that hosts none
shadowRoot(d, host) == IF d.mode[host] = "open" THEN Some(ShadowRootOf(host)) ELSE None

\* the traversal that goes on in the root it has when a hop fails
RECURSIVE traverseHostChainPastFailures(_, _, _)
traverseHostChainPastFailures(chain, d, queryRoot) ==
  IF chain = <<>> THEN Some(queryRoot)
  ELSE LET hostSelector == Head(chain)
           host == safeQuerySelector(d, queryRoot, hostSelector)
       IN  IF \/ ~isSelectorUnique(d, queryRoot, hostSelector)
              \/ host = None
              \/ shadowRoot(d, host[1]) = None
           THEN traverseHostChainPastFailures(Tail(chain), d, queryRoot)
           ELSE traverseHostChainPastFailures(Tail(chain), d, shadowRoot(d, host[1])[1])

\* the query root the host chain leads to from queryRoot, or null
RECURSIVE traverseHostChain(_, _, _)
traverseHostChain(chain, d, queryRoot) ==
  IF chain = <<>> THEN Some(queryRoot)
  ELSE LET hostSelector == Head(chain)
           host == safeQuerySelector(d, queryRoot, hostSelector)
       IN  IF ~isSelectorUnique(d, queryRoot, hostSelector) THEN None
           ELSE IF host = None THEN None
           ELSE IF shadowRoot(d, host[1]) = None THEN None
           ELSE traverseHostChain(Tail(chain), d, shadowRoot(d, host[1])[1])

RECURSIVE tryCandidates(_, _, _, _)
tryCandidates(selectors, fingerprint, d, queryRoot) ==
  IF selectors = <<>> THEN None
  ELSE LET selector == Head(selectors)
           element == safeQuerySelector(d, queryRoot, selector)
       IN  IF /\ isSelectorUnique(d, queryRoot, selector)
              /\ element # None
              /\ (fingerprint # <<>> => verifyFingerprint(d, element[1], fingerprint))
             THEN element
             ELSE tryCandidates(Tail(selectors), fingerprint, d, queryRoot)

\* locators carry no frame chain
locateElement(locator, d) ==
  LET queryRoot == traverseHostChain(locator.shadowHostChain, d, Document) IN
  IF queryRoot = None THEN None
  ELSE tryCandidates(locator.selectors, locator.fingerprint, d, queryRoot[1])

\* `frame:${frame}|shadow:${shadow}|sel:${selectors}`
locatorKey(locator) == <<<<>>, locator.shadowHostChain, locator.selectors>>

(***************************************************************************)
(* Inline styles: element.style of every element, by kebab-case property   *)
(***************************************************************************)
Props == { <<"c">>, <<"b", "-", "c">> }

readStyleValue(st, el, property) ==
  LET prop == normalizePropertyName(property) IN
  IF prop = <<>> THEN <<>> ELSE trim(st[el][prop])

\* removeProperty leaves the value '', which is what setProperty(prop, '') would store
writeStyleValue(st, el, property, value) ==
  LET prop == normalizePropertyName(property) IN
  IF prop = <<>> THEN st ELSE [st EXCEPT ![el][prop] = trim(value)]

\* one record per call of writeStyleValue that reaches the style declaration
writeRecord(st, el, property, value) ==
  LET prop == normalizePropertyName(property) IN
  IF prop = <<>> THEN <<>>
  ELSE << [el |-> el, prop |-> prop, old |-> st[el][prop], new |-> trim(value)] >>

RECURSIVE applyEntries(_, _, _, _)
applyEntries(st, el, styles, keys) ==
  IF keys = {} THEN [style |-> st, writes |-> <<>>]
  ELSE LET k == CHOOSE x \in keys : TRUE
           rest == applyEntries(writeStyleValue(st, el, k, styles[k]), el, styles, keys \ {k})
       IN  [style |-> rest.style, writes |-> writeRecord(st, el, k, styles[k]) \o rest.writes]

applyStylesSnapshot(st, el, styles) == applyEntries(st, el, styles, DOMAIN styles)

(***************************************************************************)
(* Transactions                                                            *)
(***************************************************************************)
DEFAULT_MAX_HISTORY == 100
DEFAULT_MERGE_WINDOW_MS == 800

\* options.mergeWindowMs of the modelled manager, in clock ticks
MergeWindowOption == 1
mergeWindowMs == Max(0, MergeWindowOption)

\* `tx_${timestamp}_${transactionSeq}` after transactionSeq += 1: the counter
\* alone tells two ids apart, and it is all of the id that is kept here
generateTransactionId(timestamp, seq) == seq + 1

createStyleTransaction(id, locator, property, beforeValue, afterValue, timestamp) ==
  LET prop == normalizePropertyName(property) IN
  [ id |-> id,
    type |-> "style",
    targetLocator |-> locator,
    before |-> [locator |-> locator, styles |-> (prop :> beforeValue)],
    after |-> [locator |-> locator, styles |-> (prop :> afterValue)],
    timestamp |-> timestamp,
    merged |-> FALSE ]

getSingleStyleProperty(tx) ==
  LET keys == DOMAIN tx.before.styles \cup DOMAIN tx.after.styles IN
  IF Cardinality(keys) = 1 THEN Some(CHOOSE k \in keys : TRUE) ELSE None

canMerge(prev, next, window) ==
  /\ prev.type = "style" /\ next.type = "style"
  /\ Abs(next.timestamp - prev.timestamp) <= window
  /\ locatorKey(prev.targetLocator) = locatorKey(next.targetLocator)
  /\ getSingleStyleProperty(prev) # None
  /\ getSingleStyleProperty(next) # None
  /\ getSingleStyleProperty(prev) = getSingleStyleProperty(next)

\* mergeInto leaving prev's after value as it was
mergeIntoKeepsAfter(prev, next) ==
  LET prop == getSingleStyleProperty(prev) IN
  IF prop = None THEN None
  ELSE IF prop[1] \notin DOMAIN next.after.styles THEN None
  ELSE Some([prev EXCEPT !.timestamp = next.timestamp, !.merged = TRUE])

\* None when mergeInto returns false, else the mutated prev
\* mergeInto that gives the entry the id of the transaction merged into it
mergeIntoRenamed(prev, next) ==
  LET prop == getSingleStyleProperty(prev) IN
  IF prop = None THEN None
  ELSE IF prop[1] \notin DOMAIN next.after.styles THEN None
  ELSE Some([prev EXCEPT !.after.styles = (prop[1] :> next.after.styles[prop[1]]) @@ @,
                         !.timestamp = next.timestamp,
                         !.merged = TRUE,
                         !.id = next.id])

mergeInto(prev, next) ==
  LET prop == getSingleStyleProperty(prev) IN
  IF prop = None THEN None
  ELSE IF prop[1] \notin DOMAIN next.after.styles THEN None
  ELSE Some([prev EXCEPT !.after.styles = (prop[1] :> next.after.styles[prop[1]]) @@ @,
                         !.timestamp = next.timestamp,
                         !.merged = TRUE])

\* applyTransaction reporting success when the target is not found
applyTransactionUnlocated(tx, direction, att, st) ==
  IF tx.type # "style" THEN [ok |-> TRUE, style |-> st, writes |-> <<>>]
  ELSE LET target == locateElement(tx.targetLocator, Page(att)) IN
       IF target = None THEN [ok |-> TRUE, style |-> st, writes |-> <<>>]
       ELSE LET snapshot == IF direction = "undo" THEN tx.before ELSE tx.after
                r == applyStylesSnapshot(st, target[1], snapshot.styles)
            IN  [ok |-> TRUE, style |-> r.style, writes |-> r.writes]

\* [ok, style, writes]: the outcome of applyTransaction(tx, direction)
applyTransaction(tx, direction, att, st) ==
  IF tx.type # "style" THEN [ok |-> TRUE, style |-> st, writes |-> <<>>]
  ELSE LET target == locateElement(tx.targetLocator, Page(att)) IN
       IF target = None THEN [ok |-> FALSE, style |-> st, writes |-> <<>>]
       ELSE LET snapshot == IF direction = "undo" THEN tx.before ELSE tx.after
                r == applyStylesSnapshot(st, target[1], snapshot.styles)
            IN  [ok |-> TRUE, style |-> r.style, writes |-> r.writes]

\* changeEvent with the length the undo stack had before a push
changeEventStale(action, transaction, undo, redo) ==
  [ action |-> action, transaction |-> transaction,
    undoCount |-> Max(0, Len(undo) - 1), redoCount |-> Len(redo) ]

\* the TransactionChangeEvent handed to options.onChange
changeEvent(action, transaction, undo, redo) ==
  [ action |-> action, transaction |-> transaction,
    undoCount |-> Len(undo), redoCount |-> Len(redo) ]

\* enforceMaxHistory without the splice
enforceMaxHistoryOff(undo, cap) == undo

enforceMaxHistory(undo, cap) ==
  IF Len(undo) > cap THEN SubSeq(undo, Len(undo) - cap + 1, Len(undo)) ELSE undo

\* pushTransaction without `!hadRedo` in the condition of the merge
pushTransactionMergesOverRedo(undo, redo, tx, allowMerge, cap) ==
  LET hadRedo == Len(redo) > 0
      redo1 == IF hadRedo THEN <<>> ELSE redo
      merges == /\ allowMerge /\ Len(undo) > 0
                /\ canMerge(Top(undo), tx, mergeWindowMs)
                /\ mergeInto(Top(undo), tx) # None
  IN  IF merges
        THEN LET last1 == mergeInto(Top(undo), tx)[1]
                 undo1 == Append(Pop(undo), last1)
             IN  [undo |-> undo1, redo |-> redo1,
                  events |-> <<changeEvent("merge", Some(last1), undo1, redo1)>>]
        ELSE LET undo1 == enforceMaxHistory(Append(undo, tx), cap)
             IN  [undo |-> undo1, redo |-> redo1,
                  events |-> <<changeEvent("push", Some(tx), undo1, redo1)>>]

\* pushTransaction merging into the most recent entry that can take the
\* transaction, wherever it is in the undo stack
pushTransactionSameProperty(undo, redo, tx, allowMerge, cap) ==
  LET hadRedo == Len(redo) > 0
      redo1 == IF hadRedo THEN <<>> ELSE redo
      takers == {i \in 1..Len(undo) : /\ canMerge(undo[i], tx, mergeWindowMs)
                                      /\ mergeInto(undo[i], tx) # None}
      merges == ~hadRedo /\ allowMerge /\ takers # {}
  IN  IF merges
        THEN LET i == CHOOSE j \in takers : \A k \in takers : k <= j
                 last1 == mergeInto(undo[i], tx)[1]
                 undo1 == [undo EXCEPT ![i] = last1]
             IN  [undo |-> undo1, redo |-> redo1,
                  events |-> <<changeEvent("merge", Some(last1), undo1, redo1)>>]
        ELSE LET undo1 == enforceMaxHistory(Append(undo, tx), cap)
             IN  [undo |-> undo1, redo |-> redo1,
                  events |-> <<changeEvent("push", Some(tx), undo1, redo1)>>]

\* [undo, redo, events]: the stacks after pushTransaction(tx, allowMerge) and what it emitted
\* pushTransaction that leaves the redo stack as it finds it
pushTransactionKeepsRedo(undo, redo, tx, allowMerge, cap) ==
  LET hadRedo == Len(redo) > 0
      merges == /\ ~hadRedo /\ allowMerge /\ Len(undo) > 0
                /\ canMerge(Top(undo), tx, mergeWindowMs)
                /\ mergeInto(Top(undo), tx) # None
  IN  IF merges
        THEN LET last1 == mergeInto(Top(undo), tx)[1]
                 undo1 == Append(Pop(undo), last1)
             IN  [undo |-> undo1, redo |-> redo,
                  events |-> <<changeEvent("merge", Some(last1), undo1, redo)>>]
        ELSE LET undo1 == enforceMaxHistory(Append(undo, tx), cap)
             IN  [undo |-> undo1, redo |-> redo,
                  events |-> <<changeEvent("push", Some(tx), undo1, redo)>>]

pushTransaction(undo, redo, tx, allowMerge, cap) ==
  LET hadRedo == Len(redo) > 0
      redo1 == IF hadRedo THEN <<>> ELSE redo
      merges == /\ ~hadRedo /\ allowMerge /\ Len(undo) > 0
                /\ canMerge(Top(undo), tx, mergeWindowMs)
                /\ mergeInto(Top(undo), tx) # None
  IN  IF merges
        THEN LET last1 == mergeInto(Top(undo), tx)[1]
                 undo1 == Append(Pop(undo), last1)
             IN  [undo |-> undo1, redo |-> redo1,
                  events |-> <<changeEvent("merge", Some(last1), undo1, redo1)>>]
        ELSE LET undo1 == enforceMaxHistory(Append(undo, tx), cap)
             IN  [undo |-> undo1, redo |-> redo1,
                  events |-> <<changeEvent("push", Some(tx), undo1, redo1)>>]

MaxPoint == 4
MaxScroll == 3
ContainerSize == 8
RECT_EPSILON == 2

(***************************************************************************)
(* State                                                                   *)
(***************************************************************************)
VARIABLES
  attached,        \* the elements that are in the document
  style,           \* style[e][p]: inline value of property p of element e
  clock,           \* what now() returned last
  transactionSeq,  \* the id counter of the module
  maxHistory,      \* Math.max(1, options.maxHistory ?? DEFAULT_MAX_HISTORY)
  undoStack,       \* createTransactionManager: undoStack, most recent last
  redoStack,       \* createTransactionManager: redoStack
  disposed,        \* disposer.isDisposed of the manager
  handles,         \* the StyleTransactionHandles the caller holds, by slot
  last,            \* what the most recent call did: result, events, writes
  toolbar,         \* the toolbar's undoCount and redoCount
  controller,      \* the state of the event controller
  tracker,         \* the state of the position tracker
  overlay,         \* the state of the canvas overlay
  frames,          \* the animation frame callbacks the browser holds, oldest first
  scrollY,         \* how far the page is scrolled
  heard,           \* what the most recent event, frame or call of the editor did
  ran,             \* the animation frame callback that step ran, NoFrame if none
  session,         \* editor.ts state: active, the subsystems held, the two elements
  dom,             \* the document the locator functions are called on
  lookup           \* the locator last made, the element it was made for, the result

\* the page, the transaction manager and the toolbar
managerVars == << attached, style, clock, transactionSeq, maxHistory, undoStack,
                 redoStack, disposed, handles, last, toolbar >>

\* the editor's parts, the browser's callback list and the viewport
editorVars == << controller, tracker, overlay, frames, scrollY, heard, ran, session >>

locatorVars == << dom, lookup >>

vars == << managerVars, editorVars, locatorVars >>

Slots == 1..MaxHandles

\* what a call returned, emitted through onChange, reported through
\* onApplyError and wrote to inline styles; merge is its merge option and
\* path the return statement it left through: "rejected" (manager disposed,
\* handle completed, empty property or empty stack), "noop" (before equals
\* after), "failed" (the transaction could not be applied) or "done"; found
\* is the length of the undo and of the redo stack when the call was made
Outcome(op, path, ret, events, errors, writes, merge) ==
  [ op |-> op, path |-> path, ret |-> ret, events |-> events, errors |-> errors,
    writes |-> writes, merge |-> merge,
    found |-> << Len(undoStack), Len(redoStack) >> ]

Rejected(op) == Outcome(op, "rejected", None, <<>>, 0, <<>>, FALSE)

\* createTransactionManager(options), options.maxHistory being one of
\* historyOptions (None: left undefined), in a page whose elements carry no
\* inline style yet
\* no locator was made yet
NoLookup ==
  [ op |-> "none", element |-> "none", locator |-> <<>>, changed |-> FALSE,
    received |-> FALSE, result |-> None ]

\* the page is one of the documents, and no locator was made
loadPage(documents) == dom \in documents /\ lookup = NoLookup

createTransactionManager(historyOptions) ==
  /\ attached = Elements
  /\ style = [e \in Elements |-> [p \in Props |-> <<>>]]
  /\ clock = 0
  /\ transactionSeq = 0
  /\ maxHistory \in {Max(1, IF o = None THEN DEFAULT_MAX_HISTORY ELSE o[1]) :
                        o \in historyOptions}
  /\ undoStack = <<>>
  /\ redoStack = <<>>
  /\ disposed = FALSE
  /\ handles = [h \in Slots |-> None]
  /\ last = Rejected("init")

(***************************************************************************)
(* The page under the pointer.  A point of the viewport lies over one      *)
(* element of the page, over the editor's shadow host, or over nothing;    *)
(* clientX and clientY are one number here, and 0 is the corner both start *)
(* at.  "host" is the shadow host and "panel" a node of its shadow root.   *)
(***************************************************************************)
Points == 1..MaxPoint
HostPoint == MaxPoint - 1

\* shadowHost.isOverlayElement(node): the host, or a node of its shadow root
isOverlayElement(node) == node \in {"host", "panel"}

\* document.elementFromPoint: shadow trees are retargeted to their host
elementFromPoint(point, att) ==
  IF point <= Len(BodyOrder)
  THEN (IF BodyOrder[point] \in att THEN Some(BodyOrder[point]) ELSE None)
  ELSE IF point = HostPoint THEN Some("host") ELSE None

\* event.composedPath() of an event that started at node
composedPath(node) ==
  IF node = "panel" THEN <<"panel", "host", "body">> ELSE <<node, "body">>

(***************************************************************************)
(* Events.  Every event is a record of the same fields; those its type     *)
(* does not have keep the value of NoEvent.                                *)
(***************************************************************************)
BLOCKED_POINTER_EVENTS ==
  {"pointerup", "pointercancel", "pointerover", "pointerout", "pointerenter", "pointerleave"}
BLOCKED_MOUSE_EVENTS ==
  {"mouseup", "click", "dblclick", "contextmenu", "auxclick", "mouseover", "mouseout",
   "mouseenter", "mouseleave"}
BLOCKED_KEYBOARD_EVENTS == {"keyup", "keypress"}
BLOCKED_TOUCH_EVENTS == {"touchstart", "touchmove", "touchend", "touchcancel"}

MoveTypes == {"pointermove", "mousemove"}
DownTypes == {"pointerdown", "mousedown"}
PointerTypes == {"pointermove", "pointerdown"} \cup BLOCKED_POINTER_EVENTS

NoEvent ==
  [ type |-> "", target |-> "body", cancelable |-> TRUE, clientX |-> 0, button |-> 0,
    key |-> "", altKey |-> FALSE, shiftKey |-> FALSE, ctrlKey |-> FALSE, metaKey |-> FALSE ]

\* where an event starts: an element of the page, or a node of the editor
EventTargets == {"e1", "panel"}

MoveEvents ==
  { [NoEvent EXCEPT !.type = t, !.target = n, !.clientX = x] :
      t \in MoveTypes, n \in EventTargets, x \in Points }
\* button 0 is the left button and 2 the right one; the press is over the
\* first element or over the host
DownEvents ==
  { [NoEvent EXCEPT !.type = t, !.target = n, !.clientX = x, !.button = b, !.shiftKey = s] :
      t \in DownTypes, n \in EventTargets, x \in {1, HostPoint}, b \in {0, 2},
      s \in BOOLEAN }
KeyDownEvents ==
  { [NoEvent EXCEPT !.type = "keydown", !.target = n, !.key = k] :
      n \in EventTargets, k \in {"Escape", "a"} }
\* wheel is an event of the page like the others; touch and wheel events
\* are not cancelable once the page scrolls
OtherEvents ==
  { [NoEvent EXCEPT !.type = t, !.target = n] :
      t \in BLOCKED_POINTER_EVENTS \cup BLOCKED_MOUSE_EVENTS \cup BLOCKED_KEYBOARD_EVENTS,
      n \in EventTargets }
  \cup
  { [NoEvent EXCEPT !.type = t, !.target = n, !.cancelable = c] :
      t \in BLOCKED_TOUCH_EVENTS \cup {"wheel"}, n \in EventTargets, c \in BOOLEAN }

(***************************************************************************)
(* The browser's list of animation frame callbacks.  A callback is the     *)
(* closure requestAnimationFrame was given: whose it is and the            *)
(* forceUpdate it captured.  A handle is a positive number that no         *)
(* outstanding callback has: the least one.                                *)
(***************************************************************************)
requestAnimationFrame(list, owner, force) ==
  LET outstanding == {list[i].id : i \in DOMAIN list}
      id == CHOOSE n \in 1..(Len(list) + 1) :
              n \notin outstanding /\ \A m \in 1..(n - 1) : m \in outstanding
  IN  [ id |-> id,
        list |-> Append(list, [id |-> id, owner |-> owner, forceUpdate |-> force]) ]

cancelAnimationFrame(list, id) == SelectSeq(list, LAMBDA f : f.id # id)

(***************************************************************************)
(* The canvas overlay.  x.o is its state; a size is the width and the      *)
(* height of the container as one number; lengths are in quarter pixels.   *)
(***************************************************************************)
\* createCanvasOverlay: the state, and the markDirty() that ends the
\* constructor, in a container of the size measured
createCanvasOverlay(x, size) ==
  LET r == requestAnimationFrame(x.frames, "render", FALSE)
  IN  [x EXCEPT !.frames = r.list,
                !.o = [ hoverRect |-> None, selectionRect |-> None,
                        viewportWidth |-> Max(1, size), dirty |-> TRUE,
                        rafId |-> Some(r.id), isDisposed |-> FALSE ]]

overlayCancelRaf(x) ==
  IF x.o.rafId # None
  THEN [x EXCEPT !.frames = cancelAnimationFrame(@, x.o.rafId[1]), !.o.rafId = None]
  ELSE x

scheduleRaf(x) ==
  IF x.o.rafId # None \/ x.o.isDisposed THEN x
  ELSE LET r == requestAnimationFrame(x.frames, "render", FALSE)
       IN  [x EXCEPT !.frames = r.list, !.o.rafId = Some(r.id)]

markDirty(x) ==
  IF x.o.isDisposed THEN x ELSE scheduleRaf([x EXCEPT !.o.dirty = TRUE])

\* clearCanvas and the two drawBox calls: what the canvas shows
draw(x) ==
  [x EXCEPT !.calls = Append(@, [ name |-> "draw", hover |-> x.o.hoverRect,
                                  selection |-> x.o.selectionRect ])]

\* render that paints whether the overlay is dirty or not
renderClean(x) ==
  IF x.o.isDisposed THEN x
  ELSE LET x1 == draw([overlayCancelRaf(x) EXCEPT !.o.dirty = FALSE])
       IN  IF x1.o.dirty THEN scheduleRaf(x1) ELSE x1

render(x) ==
  IF x.o.isDisposed \/ ~x.o.dirty THEN x
  ELSE LET x1 == draw([overlayCancelRaf(x) EXCEPT !.o.dirty = FALSE])
       IN  IF x1.o.dirty THEN scheduleRaf(x1) ELSE x1

\* the callback scheduleRaf gives to requestAnimationFrame
renderFrame(x) == render([x EXCEPT !.o.rafId = None])

setHoverRect(x, rect) == markDirty([x EXCEPT !.o.hoverRect = rect])

setSelectionRect(x, rect) == markDirty([x EXCEPT !.o.selectionRect = rect])

overlayClear(x) ==
  markDirty([x EXCEPT !.o.hoverRect = None, !.o.selectionRect = None])

\* the ResizeObserver callback, for a container found size wide
observeResize(x, size) ==
  LET nextWidth == Max(1, size)
  IN  IF x.o.isDisposed THEN x
      ELSE IF Abs(nextWidth - x.o.viewportWidth) < RECT_EPSILON THEN x
      ELSE markDirty([x EXCEPT !.o.viewportWidth = nextWidth])

(***************************************************************************)
(* The position tracker.  x.t is its state, x.att the elements that are in *)
(* the document and x.scrollY how far the page is scrolled; an element's   *)
(* box moves up as the page scrolls down.                                  *)
(***************************************************************************)
getBoundingClientRect(element, scrolled) ==
  [ left |-> 0, top |-> 8 * indexOf(BodyOrder, element) - scrolled, width |-> 8,
    height |-> 4 ]

toViewportRect(domRect) ==
  [ left |-> domRect.left, top |-> domRect.top, width |-> Max(0, domRect.width),
    height |-> Max(0, domRect.height) ]

approximatelyEqual(a, b) == Abs(a - b) < RECT_EPSILON

rectApproximatelyEqual(a, b) ==
  IF a = b THEN TRUE
  ELSE IF a = None \/ b = None THEN FALSE
  ELSE /\ approximatelyEqual(a[1].left, b[1].left)
       /\ approximatelyEqual(a[1].top, b[1].top)
       /\ approximatelyEqual(a[1].width, b[1].width)
       /\ approximatelyEqual(a[1].height, b[1].height)

trackedRectsEqual(a, b) ==
  rectApproximatelyEqual(a.hover, b.hover) /\ rectApproximatelyEqual(a.selection, b.selection)

createPositionTracker ==
  [ hoverElement |-> None, selectionElement |-> None,
    lastRects |-> [ hover |-> None, selection |-> None ], rafId |-> None,
    isDisposed |-> FALSE ]

trackerCancelRaf(x) ==
  IF x.t.rafId # None
  THEN [x EXCEPT !.frames = cancelAnimationFrame(@, x.t.rafId[1]), !.t.rafId = None]
  ELSE x

\* scheduleUpdate without its test of the rAF slot
scheduleUpdateAnew(x) ==
  IF x.t.isDisposed THEN x
  ELSE LET r == requestAnimationFrame(x.frames, "geometry", FALSE)
       IN  [x EXCEPT !.frames = r.list, !.t.rafId = Some(r.id)]

scheduleUpdate(x) ==
  IF x.t.isDisposed THEN x
  ELSE IF x.t.rafId # None THEN x
  ELSE LET r == requestAnimationFrame(x.frames, "geometry", FALSE)
       IN  [x EXCEPT !.frames = r.list, !.t.rafId = Some(r.id)]

\* resolveConnected without its test of isConnected
resolveConnectedOrNot(element, att) == element

resolveConnected(element, att) ==
  IF element = None THEN None ELSE IF element[1] \in att THEN element ELSE None

readElementRect(element, scrolled) ==
  IF element = None THEN None
  ELSE Some(toViewportRect(getBoundingClientRect(element[1], scrolled)))

\* computeRects: the tracker it leaves, and the rectangles it returns; one
\* element in both slots is read once, and gives both the same rectangle
computeRects(t, att, scrolled) ==
  LET resolvedHover == resolveConnected(t.hoverElement, att)
      resolvedSelection == resolveConnected(t.selectionElement, att)
  IN  [ t |-> [t EXCEPT !.hoverElement = resolvedHover,
                        !.selectionElement = resolvedSelection],
        rects |-> [ hover |-> readElementRect(resolvedHover, scrolled),
                    selection |-> readElementRect(resolvedSelection, scrolled) ],
        reads |-> IF resolvedHover # None /\ resolvedHover = resolvedSelection
                  THEN resolvedHover
                  ELSE resolvedHover \o resolvedSelection ]

\* the getBoundingClientRect calls of a pass, as calls of the step
RECURSIVE layoutReads(_)
layoutReads(elements) ==
  IF elements = <<>> THEN <<>>
  ELSE << [ name |-> "getBoundingClientRect", element |-> Head(elements) ] >>
         \o layoutReads(Tail(elements))

\* editor.ts handlePositionUpdate, the tracker's onPositionUpdate
handlePositionUpdate(x, rects) ==
  IF ~x.s.canvasOverlay THEN x
  ELSE render(setSelectionRect(setHoverRect(x, rects.hover), rects.selection))

onPositionUpdate(x, rects) ==
  handlePositionUpdate(
    [x EXCEPT !.calls = Append(@, [ name |-> "onPositionUpdate", rects |-> rects ])],
    rects)

\* updateIfChanged that keeps the pair computed last, emitted or not
updateIfChangedSinceComputed(x) ==
  IF x.t.isDisposed THEN x
  ELSE LET next == computeRects(x.t, x.att, x.scrollY)
           x1 == [x EXCEPT !.t = next.t, !.calls = @ \o layoutReads(next.reads)]
           x2 == [x1 EXCEPT !.t.lastRects = next.rects]
       IN  IF trackedRectsEqual(next.rects, x1.t.lastRects) THEN x2
           ELSE onPositionUpdate(x2, next.rects)

updateIfChanged(x) ==
  IF x.t.isDisposed THEN x
  ELSE LET next == computeRects(x.t, x.att, x.scrollY)
           x1 == [x EXCEPT !.t = next.t, !.calls = @ \o layoutReads(next.reads)]
       IN  IF trackedRectsEqual(next.rects, x1.t.lastRects) THEN x1
           ELSE onPositionUpdate([x1 EXCEPT !.t.lastRects = next.rects], next.rects)

\* the callback scheduleUpdate gives to requestAnimationFrame
updateFrame(x) == updateIfChanged([x EXCEPT !.t.rafId = None])

\* the listener of scroll and resize
handleViewportChange(x) ==
  IF /\ x.t.hoverElement = None /\ x.t.selectionElement = None
     /\ x.t.lastRects.hover = None /\ x.t.lastRects.selection = None
  THEN x
  ELSE scheduleUpdate(x)

setHoverElement(x, element) ==
  IF x.t.isDisposed THEN x
  ELSE IF x.t.hoverElement = element THEN x
  ELSE scheduleUpdate([x EXCEPT !.t.hoverElement = element])

setSelectionElement(x, element) ==
  IF x.t.isDisposed THEN x
  ELSE IF x.t.selectionElement = element THEN x
  ELSE scheduleUpdate([x EXCEPT !.t.selectionElement = element])

forceUpdate(x) ==
  IF x.t.isDisposed THEN x ELSE updateIfChanged(trackerCancelRaf(x))

(***************************************************************************)
(* The editor's handlers of the controller's callbacks.  x.s is the state  *)
(* of editor.ts: whether it holds each subsystem, and the two elements.    *)
(***************************************************************************)
handleHover(x, element) ==
  LET x1 == [x EXCEPT !.s.hoveredElement = element]
  IN  IF x1.s.positionTracker THEN forceUpdate(setHoverElement(x1, element)) ELSE x1

\* handleSelect that leaves the hovered element as it is
handleSelectKeepsHover(x, element) ==
  LET x1 == [x EXCEPT !.s.selectedElement = Some(element)]
  IN  IF x1.s.positionTracker
      THEN forceUpdate(setSelectionElement(x1, Some(element)))
      ELSE x1

handleSelect(x, element) ==
  LET x1 == [x EXCEPT !.s.selectedElement = Some(element), !.s.hoveredElement = None]
  IN  IF x1.s.positionTracker
      THEN forceUpdate(setSelectionElement(setHoverElement(x1, None), Some(element)))
      ELSE x1

handleDeselect(x) ==
  LET x1 == [x EXCEPT !.s.selectedElement = None]
  IN  IF x1.s.positionTracker THEN forceUpdate(setSelectionElement(x1, None)) ELSE x1

(***************************************************************************)
(* The event controller.  Its functions take and return the world x they   *)
(* run in: x.c is the controller's state, x.frames the browser's callback  *)
(* list, x.calls the callbacks made so far by the handler that runs,       *)
(* x.tests the points it hit-tested for hover, x.passes the answers of the *)
(* selection passes it ran, x.prevented and x.stopped what blockPageEvent  *)
(* did to the event.                                                       *)
(***************************************************************************)
createEventController(hasPointerEvents) ==
  [ mode |-> "hover", lastHoveredElement |-> None, hasPointerPosition |-> FALSE,
    lastClientX |-> 0, hoverRafId |-> None, isDisposed |-> FALSE,
    hasPointerEvents |-> hasPointerEvents ]

\* the event types the constructor listens to on document, in capture phase
listened(c) ==
  (IF c.hasPointerEvents THEN PointerTypes ELSE {})
    \cup {"mousemove", "mousedown"} \cup BLOCKED_MOUSE_EVENTS
    \cup {"keydown"} \cup BLOCKED_KEYBOARD_EVENTS \cup BLOCKED_TOUCH_EVENTS

isEventFromEditorUi(event) ==
  \E i \in DOMAIN composedPath(event.target) : isOverlayElement(composedPath(event.target)[i])

blockPageEvent(x, event) ==
  [x EXCEPT !.prevented = event.cancelable, !.stopped = TRUE]

defaultModifiers == [ alt |-> FALSE, shift |-> FALSE, ctrl |-> FALSE, meta |-> FALSE ]

extractModifiers(event) ==
  [ alt |-> event.altKey, shift |-> event.shiftKey, ctrl |-> event.ctrlKey,
    meta |-> event.metaKey ]

getTargetElementAtFast(clientX, att) ==
  LET element == elementFromPoint(clientX, att)
  IN  IF element = None THEN None
      ELSE IF isOverlayElement(element[1]) THEN None
      ELSE element

\* getTargetElementForSelection that takes whatever the engine answers
getTargetElementForSelectionAny(found) == found

\* findTargetForSelect is the selection engine's findBestTarget, which
\* answered found
getTargetElementForSelection(found) ==
  IF found # None /\ isOverlayElement(found[1]) THEN None ELSE found

\* the world after a selection pass that answered found
passed(x, found) == [x EXCEPT !.passes = Append(@, found)]

\* the callbacks of the options, each with the mode it was made in
onHover(x, element) ==
  handleHover(
    [x EXCEPT !.calls = Append(@, [ name |-> "onHover", element |-> element,
                                    modifiers |-> defaultModifiers, mode |-> x.c.mode ])],
    element)

onSelect(x, element, modifiers) ==
  handleSelect(
    [x EXCEPT !.calls = Append(@, [ name |-> "onSelect", element |-> Some(element),
                                    modifiers |-> modifiers, mode |-> x.c.mode ])],
    element)

onDeselect(x) ==
  handleDeselect(
    [x EXCEPT !.calls = Append(@, [ name |-> "onDeselect", element |-> None,
                                    modifiers |-> defaultModifiers, mode |-> x.c.mode ])])

cancelHoverRaf(x) ==
  IF x.c.hoverRafId # None
  THEN [x EXCEPT !.frames = cancelAnimationFrame(@, x.c.hoverRafId[1]),
                 !.c.hoverRafId = None]
  ELSE x

\* commitHoverUpdate without its test of the disposer
commitHoverUpdateDisposed(x, force, att) ==
  LET x1 == [x EXCEPT !.c.hoverRafId = None]
      nextElement == getTargetElementAtFast(x1.c.lastClientX, att)
      x2 == [x1 EXCEPT !.tests = Append(@, x1.c.lastClientX)]
  IN  IF x1.c.mode # "hover" THEN x1
      ELSE IF ~x1.c.hasPointerPosition THEN x1
      ELSE IF ~force /\ nextElement = x2.c.lastHoveredElement THEN x2
      ELSE onHover([x2 EXCEPT !.c.lastHoveredElement = nextElement], nextElement)

\* commitHoverUpdate without the comparison with the element reported last
commitHoverUpdateAnyway(x, force, att) ==
  LET x1 == [x EXCEPT !.c.hoverRafId = None]
      nextElement == getTargetElementAtFast(x1.c.lastClientX, att)
      x2 == [x1 EXCEPT !.tests = Append(@, x1.c.lastClientX)]
  IN  IF x1.c.isDisposed THEN x1
      ELSE IF x1.c.mode # "hover" THEN x1
      ELSE IF ~x1.c.hasPointerPosition THEN x1
      ELSE onHover([x2 EXCEPT !.c.lastHoveredElement = nextElement], nextElement)

commitHoverUpdate(x, force, att) ==
  LET x1 == [x EXCEPT !.c.hoverRafId = None]
      nextElement == getTargetElementAtFast(x1.c.lastClientX, att)
      x2 == [x1 EXCEPT !.tests = Append(@, x1.c.lastClientX)]
  IN  IF x1.c.isDisposed THEN x1
      ELSE IF x1.c.mode # "hover" THEN x1
      ELSE IF ~x1.c.hasPointerPosition THEN x1
      ELSE IF ~force /\ nextElement = x2.c.lastHoveredElement THEN x2
      ELSE onHover([x2 EXCEPT !.c.lastHoveredElement = nextElement], nextElement)

scheduleHoverUpdate(x, force) ==
  IF x.c.hoverRafId # None THEN x
  ELSE IF x.c.isDisposed THEN x
  ELSE LET r == requestAnimationFrame(x.frames, "hover", force)
       IN  [x EXCEPT !.frames = r.list, !.c.hoverRafId = Some(r.id)]

\* setMode that asks for an unforced hover update when it returns to hover
setModeUnforced(x, nextMode) ==
  IF x.c.isDisposed THEN x
  ELSE IF x.c.mode = nextMode THEN x
  ELSE LET prevMode == x.c.mode
           x1 == [x EXCEPT !.c.mode = nextMode]
       IN  IF prevMode = "hover" /\ nextMode = "selecting"
           THEN [cancelHoverRaf(x1) EXCEPT !.c.lastHoveredElement = None]
           ELSE IF prevMode = "selecting" /\ nextMode = "hover"
           THEN LET x2 == onDeselect([x1 EXCEPT !.c.lastHoveredElement = None])
                IN  IF x2.c.hasPointerPosition THEN scheduleHoverUpdate(x2, FALSE) ELSE x2
           ELSE x1

\* setMode that enters selecting without cancelHoverRaf
setModeUncancelled(x, nextMode) ==
  IF x.c.isDisposed THEN x
  ELSE IF x.c.mode = nextMode THEN x
  ELSE LET prevMode == x.c.mode
           x1 == [x EXCEPT !.c.mode = nextMode]
       IN  IF prevMode = "hover" /\ nextMode = "selecting"
           THEN [x1 EXCEPT !.c.lastHoveredElement = None]
           ELSE IF prevMode = "selecting" /\ nextMode = "hover"
           THEN LET x2 == onDeselect([x1 EXCEPT !.c.lastHoveredElement = None])
                IN  IF x2.c.hasPointerPosition THEN scheduleHoverUpdate(x2, TRUE) ELSE x2
           ELSE x1

setMode(x, nextMode) ==
  IF x.c.isDisposed THEN x
  ELSE IF x.c.mode = nextMode THEN x
  ELSE LET prevMode == x.c.mode
           x1 == [x EXCEPT !.c.mode = nextMode]
       IN  IF prevMode = "hover" /\ nextMode = "selecting"
           THEN [cancelHoverRaf(x1) EXCEPT !.c.lastHoveredElement = None]
           ELSE IF prevMode = "selecting" /\ nextMode = "hover"
           THEN LET x2 == onDeselect([x1 EXCEPT !.c.lastHoveredElement = None])
                IN  IF x2.c.hasPointerPosition THEN scheduleHoverUpdate(x2, TRUE) ELSE x2
           ELSE x1

\* handlePointerMove that keeps the position of the move that scheduled the
\* pending update
handlePointerMoveFirstWins(x, event) ==
  IF isEventFromEditorUi(event)
  THEN (IF x.c.mode = "hover" /\ x.c.lastHoveredElement # None
        THEN onHover([x EXCEPT !.c.lastHoveredElement = None], None)
        ELSE x)
  ELSE LET x1 == IF x.c.hoverRafId # None THEN blockPageEvent(x, event)
                 ELSE [blockPageEvent(x, event) EXCEPT !.c.lastClientX = event.clientX,
                                                       !.c.hasPointerPosition = TRUE]
       IN  IF x1.c.mode # "hover" THEN x1 ELSE scheduleHoverUpdate(x1, FALSE)

\* handlePointerMove that returns at once on an event from the editor's UI
handlePointerMoveIgnoresUi(x, event) ==
  IF isEventFromEditorUi(event) THEN x
  ELSE LET x1 == [blockPageEvent(x, event) EXCEPT !.c.lastClientX = event.clientX,
                                                   !.c.hasPointerPosition = TRUE]
       IN  IF x1.c.mode # "hover" THEN x1 ELSE scheduleHoverUpdate(x1, FALSE)

handlePointerMove(x, event) ==
  IF isEventFromEditorUi(event)
  THEN (IF x.c.mode = "hover" /\ x.c.lastHoveredElement # None
        THEN onHover([x EXCEPT !.c.lastHoveredElement = None], None)
        ELSE x)
  ELSE LET x1 == [blockPageEvent(x, event) EXCEPT !.c.lastClientX = event.clientX,
                                                   !.c.hasPointerPosition = TRUE]
       IN  IF x1.c.mode # "hover" THEN x1 ELSE scheduleHoverUpdate(x1, FALSE)

\* handlePointerDown without the test of event.button
handlePointerDownAnyButton(x, event, found) ==
  IF isEventFromEditorUi(event) THEN x
  ELSE LET x1 == [blockPageEvent(x, event) EXCEPT !.c.lastClientX = event.clientX,
                                                   !.c.hasPointerPosition = TRUE]
           modifiers == extractModifiers(event)
           target == getTargetElementForSelection(found)
       IN  IF x1.c.mode # "hover" THEN x1
           ELSE IF target = None THEN passed(x1, found)
           ELSE onSelect(setMode(passed(x1, found), "selecting"), target[1], modifiers)

\* handlePointerDown without the test of the mode
handlePointerDownAnyMode(x, event, found) ==
  IF isEventFromEditorUi(event) THEN x
  ELSE LET x1 == [blockPageEvent(x, event) EXCEPT !.c.lastClientX = event.clientX,
                                                   !.c.hasPointerPosition = TRUE]
           modifiers == extractModifiers(event)
           target == getTargetElementForSelection(found)
       IN  IF event.button # 0 THEN x1
           ELSE IF target = None THEN passed(x1, found)
           ELSE onSelect(setMode(passed(x1, found), "selecting"), target[1], modifiers)

handlePointerDown(x, event, found) ==
  IF isEventFromEditorUi(event) THEN x
  ELSE LET x1 == [blockPageEvent(x, event) EXCEPT !.c.lastClientX = event.clientX,
                                                   !.c.hasPointerPosition = TRUE]
           modifiers == extractModifiers(event)
           target == getTargetElementForSelection(found)
       IN  IF x1.c.mode # "hover" THEN x1
           ELSE IF event.button # 0 THEN x1
           ELSE IF target = None THEN passed(x1, found)
           ELSE onSelect(setMode(passed(x1, found), "selecting"), target[1], modifiers)

\* handleKeyDown without the test of where the event comes from
handleKeyDownFromAnywhere(x, event) ==
  LET x1 == blockPageEvent(x, event)
  IN  IF event.key = "Escape" /\ x1.c.mode = "selecting" THEN setMode(x1, "hover")
      ELSE x1

handleKeyDown(x, event) ==
  IF isEventFromEditorUi(event) THEN x
  ELSE LET x1 == blockPageEvent(x, event)
       IN  IF event.key = "Escape" /\ x1.c.mode = "selecting" THEN setMode(x1, "hover")
           ELSE x1

handleBlockedEvent(x, event) ==
  IF isEventFromEditorUi(event) THEN x ELSE blockPageEvent(x, event)

\* the listener of the event's type
handle(x, event, found) ==
  IF event.type \in MoveTypes THEN handlePointerMove(x, event)
  ELSE IF event.type \in DownTypes THEN handlePointerDown(x, event, found)
  ELSE IF event.type = "keydown" THEN handleKeyDown(x, event)
  ELSE handleBlockedEvent(x, event)

\* Disposer.dispose(): the callbacks added run, the listeners go, once
disposeController(x) ==
  IF x.c.isDisposed THEN x ELSE [cancelHoverRaf(x) EXCEPT !.c.isDisposed = TRUE]

\* the tracker's dispose: its disposer holds cancelRaf and the scroll and
\* resize listeners
disposeTracker(x) ==
  IF x.t.isDisposed THEN x ELSE [trackerCancelRaf(x) EXCEPT !.t.isDisposed = TRUE]

\* the overlay's dispose: its disposer holds canvas.remove, cancelRaf and the
\* ResizeObserver
disposeOverlay(x) ==
  IF x.o.isDisposed THEN x ELSE [overlayCancelRaf(x) EXCEPT !.o.isDisposed = TRUE]

(***************************************************************************)
(* The running editor: events of the page, animation frames, and the       *)
(* calls of the controller's interface.                                    *)
(***************************************************************************)
World ==
  [ c |-> controller, t |-> tracker, o |-> overlay, frames |-> frames,
    att |-> attached, scrollY |-> scrollY, s |-> session, calls |-> <<>>,
    tests |-> <<>>, passes |-> <<>>, prevented |-> FALSE, stopped |-> FALSE ]

NoFrame == [ id |-> 0, owner |-> "", forceUpdate |-> FALSE ]

\* what the step that ends did: op is "event", "frame", "setMode",
\* "dispose", "scroll", "resize", "observeResize" or "markDirty"; an event
\* the page still receives is one that is not stopped;
\* trail is where the pointer moved, over the page, in the steps just before
\* hover is the hover callback made last, in this step or before, in a
\* specification that keeps this history
Heard(op, event, x, trail, hover) ==
  [ op |-> op, event |-> event, prevented |-> x.prevented,
    stopped |-> x.stopped, calls |-> x.calls, tests |-> x.tests, passes |-> x.passes,
    trail |-> trail, hover |-> hover ]

\* no history of hover callbacks is kept
NoHover == [ kept |-> FALSE, said |-> FALSE, element |-> None, forced |-> FALSE ]

\* the history is kept, and no hover callback was made yet
NoHoverYet == [ kept |-> TRUE, said |-> FALSE, element |-> None, forced |-> FALSE ]

\* the step before was a pointer move from the page
Moved ==
  heard.op = "event" /\ heard.event.type \in MoveTypes /\ ~isEventFromEditorUi(heard.event)

\* for a pointer move from the page, the point of the move it follows at
\* once; for an animation frame, the points of the one or two moves it
\* follows at once
Trail(op, event) ==
  IF ~Moved THEN <<>>
  ELSE IF op = "event" /\ event.type \in MoveTypes /\ ~isEventFromEditorUi(event)
  THEN << heard.event.clientX >>
  ELSE IF op = "frame" THEN Append(heard.trail, heard.event.clientX)
  ELSE <<>>

\* the hover callback made last once the step is over: the last one of the
\* step, forced if the step ran commitHoverUpdate(true), else the one before
Reported(frame, x) ==
  LET said == SelectSeq(x.calls, LAMBDA call : call.name = "onHover") IN
  IF ~heard.hover.kept \/ said = <<>> THEN heard.hover
  ELSE [ kept |-> TRUE, said |-> TRUE, element |-> said[Len(said)].element,
         forced |-> frame.owner = "hover" /\ frame.forceUpdate ]

BecomesEditor(op, event, frame, x) ==
  /\ controller' = x.c
  /\ tracker' = x.t
  /\ overlay' = x.o
  /\ frames' = x.frames
  /\ scrollY' = x.scrollY
  /\ heard' = Heard(op, event, x, Trail(op, event), Reported(frame, x))
  /\ ran' = frame
  /\ session' = x.s
  /\ UNCHANGED locatorVars

Becomes(op, event, frame, x) ==
  /\ controller' = x.c
  /\ tracker' = x.t
  /\ overlay' = x.o
  /\ frames' = x.frames
  /\ scrollY' = x.scrollY
  /\ heard' = Heard(op, event, x, Trail(op, event), Reported(frame, x))
  /\ ran' = frame
  /\ session' = x.s
  /\ UNCHANGED locatorVars
  /\ UNCHANGED managerVars

\* createWebEditorV2: the state of editor.ts before start()
NoSession ==
  [ active |-> FALSE, shadowHost |-> FALSE, canvasOverlay |-> FALSE,
    eventController |-> FALSE, positionTracker |-> FALSE, selectionEngine |-> FALSE,
    transactionManager |-> FALSE, toolbar |-> FALSE, hoveredElement |-> None,
    selectedElement |-> None ]

\* a constructor or a dispose() of a subsystem, as a call of the step
lifecycle(x, name, subsystem) ==
  [x EXCEPT !.calls = Append(@, [ name |-> name, subsystem |-> subsystem ])]

\* the steps of start() that can throw, in order: 1 mountShadowHost, 2 the
\* test of overlayRoot, 3 createCanvasOverlay, 4 createSelectionEngine,
\* 5 createEventController, 6 createPositionTracker, 7 createTransactionManager,
\* 8 the test of uiRoot, 9 createToolbar, 10 toolbar.setHistory
StartSteps == 1..10

\* step is passed when start() fails at failAt, or does not fail (failAt = 0)
passes(failAt, step) == failAt = 0 \/ step < failAt

\* the catch block without the dispose of the position tracker
cleanupLeaksTracker(x) ==
  LET x1 == IF x.s.toolbar THEN lifecycle(x, "dispose", "toolbar") ELSE x
      x2 == IF x1.s.transactionManager
            THEN lifecycle(x1, "dispose", "transactionManager") ELSE x1
      x4 == IF x2.s.eventController
            THEN lifecycle(disposeController(x2), "dispose", "eventController") ELSE x2
      x5 == IF x4.s.selectionEngine
            THEN lifecycle(x4, "dispose", "selectionEngine") ELSE x4
      x6 == IF x5.s.canvasOverlay
            THEN lifecycle(disposeOverlay(x5), "dispose", "canvasOverlay") ELSE x5
      x7 == IF x6.s.shadowHost THEN lifecycle(x6, "dispose", "shadowHost") ELSE x6
  IN  [x7 EXCEPT !.s = NoSession]

\* the catch block of start(), and the try block of stop()
cleanup(x) ==
  LET x1 == IF x.s.toolbar THEN lifecycle(x, "dispose", "toolbar") ELSE x
      x2 == IF x1.s.transactionManager
            THEN lifecycle(x1, "dispose", "transactionManager") ELSE x1
      x3 == IF x2.s.positionTracker
            THEN lifecycle(disposeTracker(x2), "dispose", "positionTracker") ELSE x2
      x4 == IF x3.s.eventController
            THEN lifecycle(disposeController(x3), "dispose", "eventController") ELSE x3
      x5 == IF x4.s.selectionEngine
            THEN lifecycle(x4, "dispose", "selectionEngine") ELSE x4
      x6 == IF x5.s.canvasOverlay
            THEN lifecycle(disposeOverlay(x5), "dispose", "canvasOverlay") ELSE x5
      x7 == IF x6.s.shadowHost THEN lifecycle(x6, "dispose", "shadowHost") ELSE x6
  IN  [x7 EXCEPT !.s = NoSession]

\* start(), which fails at step failAt or not at all; a constructor that
\* throws leaves no subsystem behind
start(x, failAt) ==
  LET x1 == IF passes(failAt, 1)
            THEN lifecycle([x EXCEPT !.s.shadowHost = TRUE], "create", "shadowHost") ELSE x
      x3 == IF passes(failAt, 3)
            THEN lifecycle(createCanvasOverlay([x1 EXCEPT !.s.canvasOverlay = TRUE],
                                               ContainerSize),
                           "create", "canvasOverlay")
            ELSE x1
      x4 == IF passes(failAt, 4)
            THEN lifecycle([x3 EXCEPT !.s.selectionEngine = TRUE], "create",
                           "selectionEngine")
            ELSE x3
      x5 == IF passes(failAt, 5)
            THEN lifecycle([x4 EXCEPT !.s.eventController = TRUE,
                                      !.c = createEventController(x.c.hasPointerEvents)],
                           "create", "eventController")
            ELSE x4
      x6 == IF passes(failAt, 6)
            THEN lifecycle([x5 EXCEPT !.s.positionTracker = TRUE,
                                      !.t = createPositionTracker],
                           "create", "positionTracker")
            ELSE x5
      x7 == IF passes(failAt, 7)
            THEN lifecycle([x6 EXCEPT !.s.transactionManager = TRUE], "create",
                           "transactionManager")
            ELSE x6
      x9 == IF passes(failAt, 9)
            THEN lifecycle([x7 EXCEPT !.s.toolbar = TRUE], "create", "toolbar") ELSE x7
  IN  IF x.s.active THEN x
      ELSE IF failAt = 0 THEN [x9 EXCEPT !.s.active = TRUE]
      ELSE cleanup(x9)

stop(x) == IF ~x.s.active THEN x ELSE cleanup([x EXCEPT !.s.active = FALSE])

\* the editor after createWebEditorV2() and a start() that did not fail, in
\* a browser that has PointerEvent or has not; the page is not scrolled
createEditorHearing(pointerEventsOptions, hover) ==
  \E h \in pointerEventsOptions :
    LET nothing == [ c |-> createEventController(h), t |-> createPositionTracker,
                     o |-> <<>>, frames |-> <<>>, att |-> Elements, scrollY |-> 0,
                     s |-> NoSession, calls |-> <<>>, tests |-> <<>>,
                     passes |-> <<>>, prevented |-> FALSE, stopped |-> FALSE ]
        x == start(nothing, 0)
    IN  /\ controller = x.c
        /\ tracker = x.t
        /\ overlay = x.o
        /\ frames = x.frames
        /\ scrollY = x.scrollY
        /\ heard = Heard("start", NoEvent, [x EXCEPT !.calls = <<>>], <<>>, hover)
        /\ ran = NoFrame
        /\ session = x.s

createEditor(pointerEventsOptions) == createEditorHearing(pointerEventsOptions, NoHover)

\* the browser dispatches an event: the listener of its type runs while the
\* controller still listens; a browser without PointerEvent fires none
DispatchEvent(event, found) ==
  /\ event.type \in PointerTypes => controller.hasPointerEvents
  /\ Becomes("event", event, NoFrame,
             IF ~controller.isDisposed /\ event.type \in listened(controller)
             THEN handle(World, event, found) ELSE World)

\* the browser runs the oldest animation frame callback
\* the closure given to requestAnimationFrame by the owner of the frame
callback(x, frame) ==
  IF frame.owner = "hover" THEN commitHoverUpdate(x, frame.forceUpdate, x.att)
  ELSE IF frame.owner = "geometry" THEN updateFrame(x)
  ELSE renderFrame(x)

RunAnimationFrame ==
  /\ frames # <<>>
  /\ LET frame == Head(frames)
         x == [World EXCEPT !.frames = Tail(frames)]
     IN  Becomes("frame", NoEvent, frame, callback(x, frame))

\* a callback that was scheduled runs although its owner was disposed since
\* and it is in the browser's list no more
RunLateCallback(owner, force) ==
  /\ \/ owner = "hover" /\ controller.isDisposed
     \/ owner = "geometry" /\ tracker.isDisposed
     \/ owner = "render" /\ overlay.isDisposed
  /\ LET frame == [ id |-> 0, owner |-> owner, forceUpdate |-> force ]
     IN  Becomes("late", NoEvent, frame, callback(World, frame))

SetMode(nextMode) == Becomes("setMode", NoEvent, NoFrame, setMode(World, nextMode))

DisposeController == Becomes("dispose", NoEvent, NoFrame, disposeController(World))

\* a scroll event of the window or of the document: the page is now scrolled
\* by nextY, and the tracker's listener runs
Scroll(nextY) ==
  /\ nextY # scrollY
  /\ Becomes("scroll", NoEvent, NoFrame, handleViewportChange([World EXCEPT !.scrollY = nextY]))

\* a resize event of the window: the tracker's listener runs
Resize == Becomes("resize", NoEvent, NoFrame, handleViewportChange(World))

\* the ResizeObserver of the overlay's container reports its size
ObserveResize(size) == Becomes("observeResize", NoEvent, NoFrame, observeResize(World, size))

\* overlay.markDirty()
MarkDirty == Becomes("markDirty", NoEvent, NoFrame, markDirty(World))

\* positionTracker.dispose() and canvasOverlay.dispose()
DisposeTracker == Becomes("disposeTracker", NoEvent, NoFrame, disposeTracker(World))

DisposeOverlay == Becomes("disposeOverlay", NoEvent, NoFrame, disposeOverlay(World))

\* The interface of the tracker and of the overlay, called by their owner.
SetHoverElement(element) ==
  Becomes("setHoverElement", NoEvent, NoFrame, setHoverElement(World, element))

SetSelectionElement(element) ==
  Becomes("setSelectionElement", NoEvent, NoFrame, setSelectionElement(World, element))

ForceUpdate == Becomes("forceUpdate", NoEvent, NoFrame, forceUpdate(World))

SetHoverRect(rect) == Becomes("setHoverRect", NoEvent, NoFrame, setHoverRect(World, rect))

SetSelectionRect(rect) ==
  Becomes("setSelectionRect", NoEvent, NoFrame, setSelectionRect(World, rect))

OverlayClear == Becomes("clear", NoEvent, NoFrame, overlayClear(World))

Render == Becomes("render", NoEvent, NoFrame, render(World))

\* what the selection engine may answer: nothing, an element, the host
Findable == {None} \cup {Some(n) : n \in Elements \cup {"host"}}

Events ==
  \/ \E event \in MoveEvents \cup KeyDownEvents \cup OtherEvents : DispatchEvent(event, None)
  \/ \E event \in DownEvents, found \in Findable : DispatchEvent(event, found)

NextEditor ==
  \/ Events
  \/ RunAnimationFrame
  \/ \E nextMode \in {"hover", "selecting"} : SetMode(nextMode)
  \/ DisposeController

\* toolbar.setHistory(nextUndo, nextRedo): the counts are lengths, which
\* Math.floor leaves as they are
setHistory(nextUndo, nextRedo) ==
  [ undoCount |-> Max(0, nextUndo), redoCount |-> Max(0, nextRedo) ]

\* the editor's onChange option: the toolbar shows the counts of the event
handleTransactionChange(event) == setHistory(event.undoCount, event.redoCount)

\* the toolbar of start(), initialised from the stacks of the new manager
createToolbar == toolbar = setHistory(Len(undoStack), Len(redoStack))

\* emit(event) of each event of a call, in the order of the calls: the
\* listener is the editor's handleTransactionChange
RECURSIVE emit(_, _)
emit(events, shown) ==
  IF events = <<>> THEN shown
  ELSE emit(Tail(events), handleTransactionChange(Head(events)))

\* the events of the call that ends reach the listener
onChange == toolbar' = emit(last'.events, toolbar)

\* the editor's manager (options.maxHistory undefined), and one with a cap of 0
Init == createTransactionManager({None, Some(0)}) /\ createToolbar /\ createEditor({TRUE})
  /\ loadPage({Page(Elements)})

(***************************************************************************)
(* The page                                                                *)
(***************************************************************************)
DomDetach(e) ==
  /\ e \in attached
  /\ attached' = attached \ {e}
  /\ UNCHANGED << style, clock, transactionSeq, maxHistory, undoStack, redoStack,
                  disposed, handles, last, toolbar, editorVars, locatorVars >>

DomAttach(e) ==
  /\ e \notin attached
  /\ attached' = attached \cup {e}
  /\ UNCHANGED << style, clock, transactionSeq, maxHistory, undoStack, redoStack,
                  disposed, handles, last, toolbar, editorVars, locatorVars >>

(***************************************************************************)
(* beginStyle and the handle it returns                                    *)
(***************************************************************************)
\* the caller keeps its new handle where it holds none or a completed one
SlotFree(h) == IF handles[h] = None THEN TRUE ELSE handles[h][1].completed
FirstFreeSlot(h) == SlotFree(h) /\ \A g \in 1..(h - 1) : ~SlotFree(g)

beginStyle(h, target, property) ==
  /\ FirstFreeSlot(h)
  /\ LET prop == normalizePropertyName(property) IN
     IF disposed \/ prop = <<>>
       THEN /\ last' = Rejected("beginStyle")
            /\ UNCHANGED << transactionSeq, handles >>
       ELSE /\ transactionSeq' = transactionSeq + 1
            /\ handles' = [handles EXCEPT ![h] = Some(
                 [ id |-> generateTransactionId(clock, transactionSeq),
                   property |-> prop,
                   targetLocator |-> createElementLocator(target, Page(attached)),
                   target |-> target,
                   beforeValue |-> readStyleValue(style, target, prop),
                   completed |-> FALSE ])]
            /\ last' = Outcome("beginStyle", "done", None, <<>>, 0, <<>>, FALSE)
  /\ UNCHANGED << attached, style, clock, maxHistory, undoStack, redoStack, disposed >>
  /\ onChange
  /\ UNCHANGED << editorVars, locatorVars >>

\* set that writes through a handle that is complete
handleSetCompleted(h, value) ==
  /\ handles[h] # None
  /\ LET hd == handles[h][1] IN
     IF disposed
       THEN /\ last' = Rejected("set")
            /\ UNCHANGED style
       ELSE /\ style' = writeStyleValue(style, hd.target, hd.property, value)
            /\ last' = Outcome("set", "done", None, <<>>, 0,
                               writeRecord(style, hd.target, hd.property, value), FALSE)
  /\ UNCHANGED << attached, clock, transactionSeq, maxHistory, undoStack, redoStack,
                  disposed, handles >>
  /\ onChange
  /\ UNCHANGED << editorVars, locatorVars >>

handleSet(h, value) ==
  /\ handles[h] # None
  /\ LET hd == handles[h][1] IN
     IF hd.completed \/ disposed
       THEN /\ last' = Rejected("set")
            /\ UNCHANGED style
       ELSE /\ style' = writeStyleValue(style, hd.target, hd.property, value)
            /\ last' = Outcome("set", "done", None, <<>>, 0,
                               writeRecord(style, hd.target, hd.property, value), FALSE)
  /\ UNCHANGED << attached, clock, transactionSeq, maxHistory, undoStack, redoStack,
                  disposed, handles >>
  /\ onChange
  /\ UNCHANGED << editorVars, locatorVars >>

handleCommit(h, merge, t) ==
  /\ handles[h] # None
  /\ clock' = IF handles[h][1].completed \/ disposed THEN clock ELSE t
  /\ LET hd == handles[h][1]
         afterValue == readStyleValue(style, hd.target, hd.property)
         tx == createStyleTransaction(hd.id, hd.targetLocator, hd.property,
                                      hd.beforeValue, afterValue, t)
         r == pushTransaction(undoStack, redoStack, tx, merge, maxHistory)
     IN  IF hd.completed \/ disposed
           THEN /\ last' = Rejected("commit")
                /\ UNCHANGED << undoStack, redoStack, handles >>
           ELSE /\ handles' = [handles EXCEPT ![h] = Some([hd EXCEPT !.completed = TRUE])]
                /\ IF afterValue = hd.beforeValue
                     THEN /\ last' = Outcome("commit", "noop", None, <<>>, 0, <<>>, merge)
                          /\ UNCHANGED << undoStack, redoStack >>
                     ELSE /\ undoStack' = r.undo
                          /\ redoStack' = r.redo
                          /\ last' = Outcome("commit", "done", Some(tx), r.events, 0, <<>>, merge)
  /\ UNCHANGED << attached, style, transactionSeq, maxHistory, disposed >>
  /\ onChange
  /\ UNCHANGED << editorVars, locatorVars >>

\* rollback that completes the handle and leaves the style as set() left it
handleRollbackKeeps(h) ==
  /\ handles[h] # None
  /\ LET hd == handles[h][1] IN
     IF hd.completed \/ disposed
       THEN /\ last' = Rejected("rollback")
            /\ UNCHANGED << handles >>
       ELSE /\ handles' = [handles EXCEPT ![h] = Some([hd EXCEPT !.completed = TRUE])]
            /\ last' = Outcome("rollback", "done", None,
                               <<changeEvent("rollback", None, undoStack, redoStack)>>, 0,
                               <<>>, FALSE)
  /\ UNCHANGED << attached, style, clock, transactionSeq, maxHistory, undoStack, redoStack,
                  disposed >>
  /\ onChange
  /\ UNCHANGED << editorVars, locatorVars >>

handleRollback(h) ==
  /\ handles[h] # None
  /\ LET hd == handles[h][1] IN
     IF hd.completed \/ disposed
       THEN /\ last' = Rejected("rollback")
            /\ UNCHANGED << style, handles >>
       ELSE /\ handles' = [handles EXCEPT ![h] = Some([hd EXCEPT !.completed = TRUE])]
            /\ style' = writeStyleValue(style, hd.target, hd.property, hd.beforeValue)
            /\ last' = Outcome("rollback", "done", None,
                               <<changeEvent("rollback", None, undoStack, redoStack)>>, 0,
                               writeRecord(style, hd.target, hd.property, hd.beforeValue),
                               FALSE)
  /\ UNCHANGED << attached, clock, transactionSeq, maxHistory, undoStack, redoStack,
                  disposed >>
  /\ onChange
  /\ UNCHANGED << editorVars, locatorVars >>

(***************************************************************************)
(* applyStyle, recordStyle                                                 *)
(***************************************************************************)
applyStyle(target, property, value, merge, t) ==
  /\ clock' = IF disposed \/ normalizePropertyName(property) = <<>> THEN clock ELSE t
  /\ \E locator \in {createElementLocator(target, Page(attached))} :
     LET prop == normalizePropertyName(property)
         beforeValue == readStyleValue(style, target, prop)
         id == generateTransactionId(clock, transactionSeq)
         style1 == writeStyleValue(style, target, prop, value)
         afterValue == readStyleValue(style1, target, prop)
         tx == createStyleTransaction(id, locator, prop, beforeValue, afterValue, t)
         r == pushTransaction(undoStack, redoStack, tx, merge, maxHistory)
     IN  IF disposed \/ prop = <<>>
           THEN /\ last' = Rejected("applyStyle")
                /\ UNCHANGED << style, transactionSeq, undoStack, redoStack >>
           ELSE /\ transactionSeq' = transactionSeq + 1
                /\ style' = style1
                /\ IF afterValue = beforeValue
                     THEN /\ last' = Outcome("applyStyle", "noop", None, <<>>, 0,
                                             writeRecord(style, target, prop, value), merge)
                          /\ UNCHANGED << undoStack, redoStack >>
                     ELSE /\ undoStack' = r.undo
                          /\ redoStack' = r.redo
                          /\ last' = Outcome("applyStyle", "done", Some(tx), r.events, 0,
                                             writeRecord(style, target, prop, value), merge)
  /\ UNCHANGED << attached, maxHistory, disposed, handles >>
  /\ onChange
  /\ UNCHANGED << editorVars, locatorVars >>

\* recordStyle without `if (before === after) return null`
recordStyleUnchecked(locator, property, beforeValue, afterValue, merge, t) ==
  /\ clock' = IF disposed \/ normalizePropertyName(property) = <<>> THEN clock ELSE t
  /\ LET prop == normalizePropertyName(property)
         before == trim(beforeValue)
         after == trim(afterValue)
         id == generateTransactionId(clock, transactionSeq)
         tx == createStyleTransaction(id, locator, prop, before, after, t)
         r == pushTransaction(undoStack, redoStack, tx, merge, maxHistory)
     IN  IF disposed \/ prop = <<>>
           THEN /\ last' = Rejected("recordStyle")
                /\ UNCHANGED << transactionSeq, undoStack, redoStack >>
           ELSE /\ transactionSeq' = transactionSeq + 1
                /\ undoStack' = r.undo
                /\ redoStack' = r.redo
                /\ last' = Outcome("recordStyle", "done", Some(tx), r.events, 0, <<>>, merge)
  /\ UNCHANGED << attached, style, maxHistory, disposed, handles >>
  /\ onChange
  /\ UNCHANGED << editorVars, locatorVars >>

recordStyle(locator, property, beforeValue, afterValue, merge, t) ==
  /\ clock' = IF disposed \/ normalizePropertyName(property) = <<>>
                  \/ trim(beforeValue) = trim(afterValue) THEN clock ELSE t
  /\ LET prop == normalizePropertyName(property)
         before == trim(beforeValue)
         after == trim(afterValue)
         id == generateTransactionId(clock, transactionSeq)
         tx == createStyleTransaction(id, locator, prop, before, after, t)
         r == pushTransaction(undoStack, redoStack, tx, merge, maxHistory)
     IN  IF disposed \/ prop = <<>>
           THEN /\ last' = Rejected("recordStyle")
                /\ UNCHANGED << transactionSeq, undoStack, redoStack >>
           ELSE IF before = after
           THEN /\ last' = Outcome("recordStyle", "noop", None, <<>>, 0, <<>>, merge)
                /\ UNCHANGED << transactionSeq, undoStack, redoStack >>
           ELSE /\ transactionSeq' = transactionSeq + 1
                /\ undoStack' = r.undo
                /\ redoStack' = r.redo
                /\ last' = Outcome("recordStyle", "done", Some(tx), r.events, 0, <<>>, merge)
  /\ UNCHANGED << attached, style, maxHistory, disposed, handles >>
  /\ onChange
  /\ UNCHANGED << editorVars, locatorVars >>

(***************************************************************************)
(* undo, redo, clear, dispose                                              *)
(***************************************************************************)
\* undo emitting its change event also when the undo stack is empty
undoEmptyEmits ==
  /\ IF disposed
       THEN /\ last' = Rejected("undo")
            /\ UNCHANGED << style, undoStack, redoStack >>
       ELSE IF undoStack = <<>>
       THEN /\ last' = Outcome("undo", "rejected", None,
                 <<changeEvent("undo", None, undoStack, redoStack)>>, 0, <<>>, FALSE)
            /\ UNCHANGED << style, undoStack, redoStack >>
       ELSE LET tx == Top(undoStack)
                popped == Pop(undoStack)
                a == applyTransaction(tx, "undo", attached, style)
            IN  IF ~a.ok
                  THEN /\ undoStack' = Append(popped, tx)
                       /\ last' = Outcome("undo", "failed", None, <<>>, 1, <<>>, FALSE)
                       /\ UNCHANGED << style, redoStack >>
                  ELSE /\ undoStack' = popped
                       /\ redoStack' = Append(redoStack, tx)
                       /\ style' = a.style
                       /\ last' = Outcome("undo", "done", Some(tx),
                            <<changeEvent("undo", Some(tx), popped, Append(redoStack, tx))>>,
                            0, a.writes, FALSE)
  /\ UNCHANGED << attached, clock, transactionSeq, maxHistory, disposed, handles >>
  /\ onChange
  /\ UNCHANGED << editorVars, locatorVars >>

undo ==
  /\ IF disposed \/ undoStack = <<>>
       THEN /\ last' = Rejected("undo")
            /\ UNCHANGED << style, undoStack, redoStack >>
       ELSE LET tx == Top(undoStack)
                popped == Pop(undoStack)
                a == applyTransaction(tx, "undo", attached, style)
            IN  IF ~a.ok
                  THEN /\ undoStack' = Append(popped, tx)
                       /\ last' = Outcome("undo", "failed", None, <<>>, 1, <<>>, FALSE)
                       /\ UNCHANGED << style, redoStack >>
                  ELSE /\ undoStack' = popped
                       /\ redoStack' = Append(redoStack, tx)
                       /\ style' = a.style
                       /\ last' = Outcome("undo", "done", Some(tx),
                            <<changeEvent("undo", Some(tx), popped, Append(redoStack, tx))>>,
                            0, a.writes, FALSE)
  /\ UNCHANGED << attached, clock, transactionSeq, maxHistory, disposed, handles >>
  /\ onChange
  /\ UNCHANGED << editorVars, locatorVars >>

\* redo leaving the transaction on the redo stack as well
redoKeepsEntry ==
  /\ IF disposed \/ redoStack = <<>>
       THEN /\ last' = Rejected("redo")
            /\ UNCHANGED << style, undoStack, redoStack >>
       ELSE LET tx == Top(redoStack)
                popped == Pop(redoStack)
                a == applyTransaction(tx, "redo", attached, style)
                undo1 == enforceMaxHistory(Append(undoStack, tx), maxHistory)
            IN  IF ~a.ok
                  THEN /\ redoStack' = Append(popped, tx)
                       /\ last' = Outcome("redo", "failed", None, <<>>, 1, <<>>, FALSE)
                       /\ UNCHANGED << style, undoStack >>
                  ELSE /\ redoStack' = redoStack
                       /\ undoStack' = undo1
                       /\ style' = a.style
                       /\ last' = Outcome("redo", "done", Some(tx),
                            <<changeEvent("redo", Some(tx), undo1, redoStack)>>,
                            0, a.writes, FALSE)
  /\ UNCHANGED << attached, clock, transactionSeq, maxHistory, disposed, handles >>
  /\ onChange
  /\ UNCHANGED << editorVars, locatorVars >>

redo ==
  /\ IF disposed \/ redoStack = <<>>
       THEN /\ last' = Rejected("redo")
            /\ UNCHANGED << style, undoStack, redoStack >>
       ELSE LET tx == Top(redoStack)
                popped == Pop(redoStack)
                a == applyTransaction(tx, "redo", attached, style)
                undo1 == enforceMaxHistory(Append(undoStack, tx), maxHistory)
            IN  IF ~a.ok
                  THEN /\ redoStack' = Append(popped, tx)
                       /\ last' = Outcome("redo", "failed", None, <<>>, 1, <<>>, FALSE)
                       /\ UNCHANGED << style, undoStack >>
                  ELSE /\ redoStack' = popped
                       /\ undoStack' = undo1
                       /\ style' = a.style
                       /\ last' = Outcome("redo", "done", Some(tx),
                            <<changeEvent("redo", Some(tx), undo1, popped)>>,
                            0, a.writes, FALSE)
  /\ UNCHANGED << attached, clock, transactionSeq, maxHistory, disposed, handles >>
  /\ onChange
  /\ UNCHANGED << editorVars, locatorVars >>

clear ==
  /\ undoStack' = <<>>
  /\ redoStack' = <<>>
  /\ last' = Outcome("clear", "done", None, <<changeEvent("clear", None, <<>>, <<>>)>>, 0, <<>>, FALSE)
  /\ UNCHANGED << attached, style, clock, transactionSeq, maxHistory, disposed, handles >>
  /\ onChange
  /\ UNCHANGED << editorVars, locatorVars >>

dispose ==
  /\ undoStack' = <<>>
  /\ redoStack' = <<>>
  /\ disposed' = TRUE
  /\ last' = Outcome("dispose", "done", None, <<>>, 0, <<>>, FALSE)
  /\ UNCHANGED << attached, style, clock, transactionSeq, maxHistory, handles >>
  /\ onChange
  /\ UNCHANGED << editorVars, locatorVars >>

(***************************************************************************)
(* Specification                                                           *)
(***************************************************************************)
\* the locators a caller of recordStyle can have built from the document
CallerLocators == {createElementLocator(e, Page(Elements)) : e \in Targets}

\* what now() may return to the next call that reads it: time does not run back
Now == clock..MaxTime

\* the calls that draw a transaction id, while the id counter is under max
Begin(max) ==
  /\ transactionSeq < max
  /\ \/ \E h \in Slots, e \in Targets \cap attached, p \in RawProps : beginStyle(h, e, p)
     \/ \E e \in Targets \cap attached, p \in RawProps, v \in RawValues, m \in BOOLEAN,
           t \in Now : applyStyle(e, p, v, m, t)

Record(max) ==
  /\ transactionSeq < max
  /\ \E l \in CallerLocators, p \in RawProps, b \in RecordedValues, a \in RawValues,
        m \in BOOLEAN, t \in Now : recordStyle(l, p, b, a, m, t)

\* the calls on the handles a caller holds, and undo and redo
Continue ==
  \/ \E h \in Slots, v \in RawValues : handleSet(h, v)
  \/ \E h \in Slots, m \in BOOLEAN, t \in Now : handleCommit(h, m, t)
  \/ \E h \in Slots : handleRollback(h)
  \/ undo
  \/ redo

Dom ==
  \/ \E e \in Removable : DomDetach(e)
  \/ \E e \in Removable : DomAttach(e)

Next ==
  \/ Dom
  \/ Begin(MaxSeq)
  \/ Record(MaxSeq)
  \/ Continue
  \/ clear
  \/ dispose

Spec == Init /\ [][Next]_vars

\* The same manager while its caller makes every edit through beginStyle or
\* applyStyle, and never calls recordStyle, clear or dispose.
NextCommits ==
  \/ Dom
  \/ Begin(MaxSeq)
  \/ Continue

SpecCommits == Init /\ [][NextCommits]_vars

\* The editing session of one element that stays in the page: applyStyle with
\* a third value, undo and redo, with one more transaction id than Spec allows
\* and caps of the history that three entries reach.
InitEdits ==
  /\ createTransactionManager({Some(MaxHistoryOption - 1), Some(MaxHistoryOption)})
  /\ createToolbar
  /\ createEditor({TRUE})
  /\ loadPage({Page(Elements)})

\* "", " r " (red, padded) and "g" (green)
EditValues == RawValues \cup { <<"g">> }

NextEdits ==
  \/ /\ transactionSeq < MaxEdits
     /\ \E e \in Targets, p \in RawProps, v \in EditValues, m \in BOOLEAN, t \in Now :
          applyStyle(e, p, v, m, t)
  \/ undo
  \/ redo

SpecEdits == InitEdits /\ [][NextEdits]_vars

\* The editor of a page that stays as it is, in a browser with or without
\* PointerEvent, while nothing is edited.
InitEditor == createTransactionManager({None}) /\ createToolbar /\ createEditor(BOOLEAN)
  /\ loadPage({Page(Elements)})

SpecEditor == InitEditor /\ [][NextEditor]_vars

\* The events that decide what the editor hovers and selects: the moves,
\* the keys, and the plain presses of the left button over the first element.
\* The events of handleBlockedEvent leave the controller as it is.
PlainDownEvents ==
  { event \in DownEvents : event.clientX = 1 /\ event.button = 0 /\ ~event.shiftKey }

PlainEvents ==
  \/ \E event \in MoveEvents \cup KeyDownEvents : DispatchEvent(event, None)
  \/ \E event \in PlainDownEvents, found \in Findable : DispatchEvent(event, found)

NextEditorFair ==
  \/ PlainEvents
  \/ RunAnimationFrame
  \/ \E nextMode \in {"hover", "selecting"} : SetMode(nextMode)
  \/ DisposeController

\* The same editor in a browser that keeps painting: an animation frame
\* callback that stays in the list is run.
\* A step that makes ran the head of the list is a step of RunAnimationFrame,
\* and one is possible whenever the list is not empty: the head was not yet
\* in the list, or was behind the callback that ran, when that one ran.
FrameRuns == frames # <<>> /\ ran' = Head(frames)

SpecEditorFair == InitEditor /\ [][NextEditorFair]_vars /\ WF_ran(FrameRuns)

\* The editor of a page that scrolls, in a window and a container that are
\* resized, while the pointer moves and presses and the overlay is marked
\* dirty.
ScrollPositions == 0..MaxScroll

ContainerSizes == {ContainerSize, ContainerSize + RECT_EPSILON}

InitPaint == createTransactionManager({None}) /\ createToolbar /\ createEditor({TRUE})
  /\ loadPage({Page(Elements)})

\* the pointer events of a page element: the moves to each point, the plain
\* press, and Escape
PagePointerEvents ==
  { event \in MoveEvents \cup PlainDownEvents :
      event.type \in {"pointermove", "pointerdown"} /\ event.target = "e1" }
  \cup { event \in KeyDownEvents : event.key = "Escape" /\ event.target = "e1" }

NextPaint ==
  \/ \E event \in PagePointerEvents :
       DispatchEvent(event, getTargetElementAtFast(event.clientX, attached))
  \/ RunAnimationFrame
  \/ \E nextY \in ScrollPositions : Scroll(nextY)
  \/ Resize
  \/ \E size \in ContainerSizes : ObserveResize(size)
  \/ MarkDirty

SpecPaint == InitPaint /\ [][NextPaint]_vars

\* The editor whose controller, tracker and overlay are disposed one by one,
\* in any order and at any time, while the pointer moves and presses, the
\* page scrolls and the overlay is marked dirty.
NextDispose ==
  \/ \E event \in PagePointerEvents :
       DispatchEvent(event, getTargetElementAtFast(event.clientX, attached))
  \/ RunAnimationFrame
  \/ \E nextY \in {0, MaxScroll} : Scroll(nextY)
  \/ MarkDirty
  \/ DisposeController
  \/ DisposeTracker
  \/ DisposeOverlay
  \/ \E owner \in {"hover", "geometry", "render"}, force \in BOOLEAN :
       RunLateCallback(owner, force)

SpecDispose == InitPaint /\ [][NextDispose]_vars

\* The tracker under the calls of its interface, in a page that scrolls and
\* whose first element is detached and attached again.
Trackable == {None} \cup {Some(e) : e \in Elements}

NextTracking ==
  \/ \E element \in Trackable : SetHoverElement(element)
  \/ \E element \in Trackable : SetSelectionElement(element)
  \/ ForceUpdate
  \/ \E nextY \in ScrollPositions : Scroll(nextY)
  \/ RunAnimationFrame
  \/ Dom
  \/ DisposeTracker

SpecTracking == InitPaint /\ [][NextTracking]_vars

\* The overlay under the calls of its interface.
Rects == {None, readElementRect(Some("e1"), 0)}

NextOverlay ==
  \/ \E rect \in Rects : SetHoverRect(rect)
  \/ \E rect \in Rects : SetSelectionRect(rect)
  \/ OverlayClear
  \/ MarkDirty
  \/ Render
  \/ \E size \in ContainerSizes : ObserveResize(size)
  \/ RunAnimationFrame
  \/ DisposeOverlay

SpecOverlay == InitPaint /\ [][NextOverlay]_vars

(***************************************************************************)
(* Properties                                                              *)
(***************************************************************************)
\* the step is a call of op: every call that changes the state leaves a new
\* outcome in last, and the page's own steps leave last alone
Called(op) == last' # last /\ last'.op = op

EditOps == {"commit", "applyStyle", "recordStyle"}
\* the step is a call that recorded a transaction / last is such a call
Records == last' # last /\ last'.op \in EditOps /\ last'.ret # None
Recorded == last.op \in EditOps /\ last.ret # None

propertyOf(tx) == CHOOSE k \in DOMAIN tx.before.styles : TRUE
beforeOf(tx) == tx.before.styles[propertyOf(tx)]
afterOf(tx) == tx.after.styles[propertyOf(tx)]
sameTarget(a, b) == locatorKey(a.targetLocator) = locatorKey(b.targetLocator)
inWindow(a, b) == Abs(b.timestamp - a.timestamp) <= mergeWindowMs
LastN(s, n) == IF Len(s) > n THEN SubSeq(s, Len(s) - n + 1, Len(s)) ELSE s
unresolvable(tx) == locateElement(tx.targetLocator, Page(attached)) = None

\* ---- C1 ----
\* the step records, with merging permitted and the redo stack empty, an edit
\* of the element and property of the edit that the call before it recorded,
\* at most mergeWindowMs after it
SecondEdit ==
  /\ Records /\ last'.merge /\ redoStack = <<>>
  /\ Recorded
  /\ sameTarget(last.ret[1], last'.ret[1])
  /\ propertyOf(last.ret[1]) = propertyOf(last'.ret[1])
  /\ inWindow(last.ret[1], last'.ret[1])

\* C1 as stated: two consecutive in-window edits of one element and property
\* leave one undo entry for them, whose before value is the first edit's before
\* value and whose after value is the second edit's after value.
C1_FirstBeforeSecondAfter ==
  [][SecondEdit =>
       /\ Len(undoStack') = Len(undoStack)
       /\ beforeOf(Top(undoStack')) = beforeOf(last.ret[1])
       /\ afterOf(Top(undoStack')) = afterOf(last'.ret[1])]_vars

\* C1 amended: the two edits leave one undo entry for them, the entry that
\* held the first edit; it keeps its before value, which is the first edit's
\* before value when the first edit was pushed as that entry (and an earlier
\* edit's when the first edit was itself merged), and its after value is the
\* second edit's after value.
C1_MergedEntry ==
  [][SecondEdit =>
       /\ Len(undoStack') = Len(undoStack)
       /\ Pop(undoStack') = Pop(undoStack)
       /\ beforeOf(Top(undoStack')) = beforeOf(Top(undoStack))
       /\ (last.events[1].action = "push"
             => beforeOf(Top(undoStack')) = beforeOf(last.ret[1]))
       /\ afterOf(Top(undoStack')) = afterOf(last'.ret[1])
       /\ last'.events[1].action = "merge"]_vars

\* a second edit was merged into the entry its predecessor was pushed as:
\* "" -> "r", then "r" -> "g"
C1_Merged ==
  /\ Recorded /\ last.events[1].action = "merge" /\ last.found = <<1, 0>>
  /\ Len(undoStack) = 1
  /\ beforeOf(Top(undoStack)) = <<>> /\ afterOf(Top(undoStack)) = <<"g">>
  /\ beforeOf(last.ret[1]) = <<"r">>

\* ---- C2 ----
\* C2 as stated: a redo that follows an undo at once leaves the edited
\* property of the target with the value it had just before the undo.
C2_UndoRedoRestores ==
  [][(Called("redo") /\ last'.ret # None /\ last.op = "undo" /\ last.ret # None)
       => \A i \in 1..Len(last.writes) :
            style'[last.writes[i].el][last.writes[i].prop] = last.writes[i].old]_vars

\* ---- C3 ----
NothingApplied ==
  /\ undoStack' = undoStack /\ redoStack' = redoStack /\ style' = style
  /\ last'.writes = <<>> /\ last'.events = <<>> /\ last'.errors = 1
  /\ last'.ret = None

\* C3: an undo (a redo) whose transaction has a target that cannot be located
\* leaves both stacks and every style as they were, emits no change event,
\* reports one error and returns none.
C3_UnresolvedTargetPushedBack ==
  [][/\ (Called("undo") /\ ~disposed /\ undoStack # <<>> /\ unresolvable(Top(undoStack))
          => NothingApplied)
     /\ (Called("redo") /\ ~disposed /\ redoStack # <<>> /\ unresolvable(Top(redoStack))
          => NothingApplied)]_vars

\* a redo has just failed on a detached target
C3_RedoFailed ==
  /\ last.op = "redo" /\ last.path = "failed" /\ last.errors = 1
  /\ redoStack # <<>> /\ unresolvable(Top(redoStack))

\* ---- C4 ----
\* C4 as stated: every transaction in the undo stack or the redo stack has a
\* before value different from its after value.
C4_BeforeDiffersFromAfter ==
  /\ \A i \in 1..Len(undoStack) : beforeOf(undoStack[i]) # afterOf(undoStack[i])
  /\ \A i \in 1..Len(redoStack) : beforeOf(redoStack[i]) # afterOf(redoStack[i])

\* ---- C5 ----
\* C5: a commit or recordStyle returns a transaction only if its trimmed
\* before and after values differ; when it returns none the undo stack and the
\* redo stack are as they were and no change event was emitted.
C5_NoOpEditNotRecorded ==
  [][(Called("commit") \/ Called("recordStyle"))
       => IF last'.ret = None
            THEN undoStack' = undoStack /\ redoStack' = redoStack /\ last'.events = <<>>
            ELSE trim(beforeOf(last'.ret[1])) # trim(afterOf(last'.ret[1]))]_vars

\* recordStyle has just returned none for equal values, with a transaction to redo
C5_NoOpRecord ==
  /\ last.op = "recordStyle" /\ last.path = "noop" /\ last.found = <<0, 1>>
  /\ undoStack = <<>> /\ Len(redoStack) = 1

\* ---- C6 ----
\* the step records, with the redo stack empty, an edit of the property of the
\* undo entry below the top one, within the merge window of it, while the top
\* entry is an edit of another property of the same element
ThirdEdit ==
  /\ Records /\ redoStack = <<>> /\ Len(undoStack) >= 2
  /\ sameTarget(undoStack[Len(undoStack) - 1], last'.ret[1])
  /\ sameTarget(Top(undoStack), last'.ret[1])
  /\ propertyOf(undoStack[Len(undoStack) - 1]) = propertyOf(last'.ret[1])
  /\ propertyOf(Top(undoStack)) # propertyOf(last'.ret[1])
  /\ inWindow(undoStack[Len(undoStack) - 1], last'.ret[1])

\* C6 as stated: the undo stack then holds the three edits as three entries,
\* in commit order.
C6_ThreeEntries ==
  [][ThirdEdit =>
       /\ Len(undoStack') >= 3
       /\ SubSeq(undoStack', Len(undoStack') - 2, Len(undoStack'))
            = << undoStack[Len(undoStack) - 1], Top(undoStack), last'.ret[1] >>]_vars

\* C6 amended: the third edit is not merged but pushed as an entry of its own
\* on top of the two; the undo stack then holds the three in commit order when
\* maxHistory is at least 3, and the newest maxHistory of them otherwise.
C6_PushedNotMerged ==
  [][ThirdEdit =>
       /\ last'.events[1].action = "push"
       /\ undoStack' = LastN(Append(undoStack, last'.ret[1]), maxHistory)
       /\ (maxHistory >= 3 =>
             SubSeq(undoStack', Len(undoStack') - 2, Len(undoStack'))
               = << undoStack[Len(undoStack) - 1], Top(undoStack), last'.ret[1] >>)]_vars

\* three entries at one time: property c, then b-c, then c again, merging permitted
C6_ThreeSeparate ==
  /\ Recorded /\ last.merge /\ Len(undoStack) = 3
  /\ Top(undoStack) = last.ret[1]
  /\ propertyOf(undoStack[1]) = <<"c">>
  /\ propertyOf(undoStack[2]) = <<"b", "-", "c">>
  /\ propertyOf(undoStack[3]) = <<"c">>
  /\ undoStack[1].timestamp = undoStack[3].timestamp

\* ---- C7 ----
\* C7: a successful undo moves the top undo entry, and no other, to the top of
\* the redo stack; a successful redo moves the top redo entry back, so that a
\* redo right after an undo puts back the transaction the undo returned.
C7_UndoRedoMoveOneEntry ==
  [][/\ (Called("undo") /\ last'.ret # None
          => /\ undoStack # <<>>
             /\ last'.ret = Some(Top(undoStack))
             /\ undoStack' = Pop(undoStack)
             /\ redoStack' = Append(redoStack, Top(undoStack)))
     /\ (Called("redo") /\ last'.ret # None
          => /\ redoStack # <<>>
             /\ last'.ret = Some(Top(redoStack))
             /\ redoStack' = Pop(redoStack)
             /\ undoStack' = Append(undoStack, Top(redoStack))
             /\ (last.op = "undo" /\ last.ret # None => last'.ret = last.ret))]_vars

\* a redo has put the second of two undo entries back
C7_Redone ==
  /\ last.op = "redo" /\ last.ret # None /\ last.found = <<1, 1>>
  /\ Len(undoStack) = 2 /\ redoStack = <<>>

\* ---- C8 ----
\* C8: after every recorded edit the redo stack is empty, and an edit recorded
\* while the redo stack was not empty is pushed as a new entry on top of the
\* undo stack, which is otherwise as it was.
C8_RecordClearsRedo ==
  [][Records =>
       /\ redoStack' = <<>>
       /\ (redoStack # <<>> =>
             /\ last'.events[1].action = "push"
             /\ undoStack' = Append(undoStack, last'.ret[1]))]_vars

\* an edit was recorded, merging permitted, on top of an entry of its property
\* and time while there was something to redo
C8_PushedOverRedo ==
  /\ Recorded /\ last.merge /\ last.found = <<1, 1>>
  /\ Len(undoStack) = 2 /\ redoStack = <<>>
  /\ propertyOf(undoStack[1]) = propertyOf(undoStack[2])
  /\ undoStack[1].timestamp = undoStack[2].timestamp

\* ---- C9 ----
\* C9: maxHistory is max(1, cap), 100 by default, the undo stack never holds
\* more entries, and a pushed transaction is the top entry above the newest
\* of the entries that were there.
C9_HistoryCapped ==
  /\ [](maxHistory \in {1, DEFAULT_MAX_HISTORY} /\ Len(undoStack) <= maxHistory)
  /\ [][(Records /\ last'.events[1].action = "push")
          => /\ Top(undoStack') = last'.ret[1]
             /\ undoStack' = LastN(Append(undoStack, last'.ret[1]), maxHistory)]_vars

\* a push onto a full undo stack evicted its only entry
C9_Evicted ==
  /\ Recorded /\ last.events[1].action = "push" /\ last.found = <<1, 0>>
  /\ maxHistory = 1 /\ undoStack = << last.ret[1] >>

\* ---- C10 ----
\* C10: undo on an empty undo stack returns none, writes no style, emits no
\* change event and leaves both stacks as they were.
C10_UndoOnEmptyStack ==
  [][(Called("undo") /\ undoStack = <<>>)
       => /\ last'.ret = None /\ last'.writes = <<>> /\ last'.events = <<>>
          /\ style' = style /\ undoStack' = <<>> /\ redoStack' = redoStack]_vars

\* undo has just returned none on an empty undo stack, with a transaction to redo
C10_UndoneNothing ==
  /\ last.op = "undo" /\ last.ret = None /\ last.found = <<0, 1>>
  /\ ~disposed /\ undoStack = <<>> /\ Len(redoStack) = 1

\* the calls that change a stack when they go through: a push or a merge
\* (commit, applyStyle, recordStyle), an undo, a redo and clear
StackOps == EditOps \cup {"undo", "redo", "clear"}

shownCounts == [ undoCount |-> Len(undoStack), redoCount |-> Len(redoStack) ]

\* C11: every push, merge, successful undo, successful redo and clear emits
\* exactly one change event, every event a call emits carries the lengths the
\* two stacks have when the call returns, and so, until the manager is
\* disposed, the counts the toolbar shows are the lengths of the two stacks.
C11_ToolbarFollowsStacks ==
  /\ [](~disposed => toolbar = shownCounts)
  /\ [][ last' # last =>
          /\ (last'.op \in StackOps /\ last'.path = "done" => Len(last'.events) = 1)
          /\ \A i \in DOMAIN last'.events :
                /\ last'.events[i].undoCount = Len(undoStack')
                /\ last'.events[i].redoCount = Len(redoStack') ]_vars

\* an undo went through and the toolbar shows one entry on each stack
C11_ShownAfterUndo ==
  /\ ~disposed
  /\ last.op = "undo" /\ last.path = "done" /\ Len(last.events) = 1
  /\ toolbar = [ undoCount |-> 1, redoCount |-> 1 ]
  /\ Len(undoStack) = 1 /\ Len(redoStack) = 1

(***************************************************************************)
(* Properties of the event controller                                      *)
(***************************************************************************)
\* the step is an event of one of the types, dispatched from the page or
\* from the editor's own UI
EventOf(types) == heard'.op = "event" /\ heard'.event.type \in types
FromPage == ~isEventFromEditorUi(heard'.event)
FromUi == isEventFromEditorUi(heard'.event)

\* the callbacks of one name the step made
CallsOf(h, name) == SelectSeq(h.calls, LAMBDA call : call.name = name)

\* C12: the mode is hover or selecting and starts as hover; it goes from
\* hover to selecting only in a left-button pointer-down from the page for
\* which a selectable target was found (the one handed to the selection
\* callback) or in a call of setMode, and from selecting to hover only in
\* an Escape key-down from the page or in a call of setMode; no other step
\* changes it.
C12_ModeTransitions ==
  /\ controller.mode = "hover"
  /\ [](controller.mode \in {"hover", "selecting"})
  /\ [][ controller'.mode # controller.mode =>
          \/ /\ controller.mode = "hover" /\ controller'.mode = "selecting"
             /\ \/ heard'.op = "setMode"
                \/ /\ EventOf(DownTypes) /\ FromPage
                   /\ heard'.event.button = 0
                   /\ \E i \in DOMAIN heard'.calls :
                        /\ heard'.calls[i].name = "onSelect"
                        /\ ~isOverlayElement(heard'.calls[i].element[1])
          \/ /\ controller.mode = "selecting" /\ controller'.mode = "hover"
             /\ \/ heard'.op = "setMode"
                \/ EventOf({"keydown"}) /\ FromPage /\ heard'.event.key = "Escape" ]_vars

\* a pointer-down has just put the controller into selecting mode
C12_SelectedByPointerDown ==
  /\ heard.op = "event" /\ heard.event.type = "pointerdown"
  /\ Len(CallsOf(heard, "onSelect")) = 1
  /\ controller.mode = "selecting"

\* C13: a pointer-down that takes the mode from hover to selecting calls the
\* selection callback exactly once, when the mode is already selecting, with
\* the element its one selection pass answered and the modifiers of the
\* event; and a pointerdown followed at once by the mousedown of the same
\* click call it once between them.
C13_OneSelectionPerClick ==
  /\ [][ EventOf(DownTypes) /\ controller.mode = "hover" /\ controller'.mode = "selecting" =>
          LET selected == CallsOf(heard', "onSelect")
          IN  /\ Len(selected) = 1
              /\ selected[1].mode = "selecting"
              /\ Len(heard'.passes) = 1
              /\ selected[1].element = heard'.passes[1]
              /\ selected[1].modifiers = extractModifiers(heard'.event) ]_vars
  /\ [][ heard.op = "event" /\ heard.event.type = "pointerdown" /\ EventOf({"mousedown"}) =>
          Len(CallsOf(heard, "onSelect")) + Len(CallsOf(heard', "onSelect")) <= 1 ]_vars

\* a shift-click over the second element has just selected it
C13_ShiftClickSelected ==
  /\ heard.op = "event" /\ heard.event.type \in DownTypes /\ heard.event.shiftKey
  /\ heard.passes = << Some("e2") >>
  /\ CallsOf(heard, "onSelect") =
       << [ name |-> "onSelect", element |-> Some("e2"),
            modifiers |-> [defaultModifiers EXCEPT !.shift = TRUE], mode |-> "selecting" ] >>
  /\ controller.mode = "selecting"

\* the hover callback frames of this controller that are outstanding
HoverFrames == SelectSeq(frames, LAMBDA f : f.owner = "hover")

\* an Escape key-down from the page has just ended the selection
Escaped ==
  /\ heard.op = "event" /\ heard.event.type = "keydown" /\ heard.event.key = "Escape"
  /\ ~isEventFromEditorUi(heard.event)
  /\ Len(CallsOf(heard, "onDeselect")) = 1

\* an animation frame has just delivered a forced hover callback
HoverDelivered ==
  /\ heard.op = "frame" /\ ran.owner = "hover" /\ ran.forceUpdate
  /\ Len(CallsOf(heard, "onHover")) = 1

\* C14 as stated: after an Escape key-down from the page that ended the
\* selection, a hover callback is delivered by an animation frame, unless
\* the mode changes again or the controller is disposed first.
C14_EscapeAlwaysResumesHover ==
  Escaped ~> (HoverDelivered \/ controller.mode # "hover" \/ controller.isDisposed)

\* C14, amended: an Escape key-down from the page in selecting mode, while
\* the controller listens, makes the
\* mode hover and calls the deselection callback exactly once; when a pointer
\* position has been recorded it leaves one forced hover update scheduled,
\* the frame that runs it in hover mode hit-tests the last recorded position
\* and calls the hover callback once with what it found, whatever that is,
\* and so a hover callback is delivered with no further pointer move unless
\* the mode changes again or the controller is disposed first.
C14_EscapeResumesHover ==
  /\ [][ /\ EventOf({"keydown"}) /\ FromPage /\ heard'.event.key = "Escape"
         /\ controller.mode = "selecting" /\ ~controller.isDisposed
         => /\ controller'.mode = "hover"
            /\ Len(CallsOf(heard', "onDeselect")) = 1
            /\ CallsOf(heard', "onSelect") = <<>>
            /\ controller.hasPointerPosition =>
                 /\ Len(HoverFrames') = 1
                 /\ HoverFrames'[1].forceUpdate
                 /\ controller'.hoverRafId = Some(HoverFrames'[1].id) ]_vars
  /\ [][ /\ heard'.op = "frame" /\ ran'.owner = "hover" /\ ran'.forceUpdate
         /\ controller.mode = "hover" /\ ~controller.isDisposed
         /\ controller.hasPointerPosition
         => /\ heard'.tests = << controller.lastClientX >>
            /\ CallsOf(heard', "onHover") =
                 << [ name |-> "onHover",
                      element |-> getTargetElementAtFast(controller.lastClientX, attached),
                      modifiers |-> defaultModifiers, mode |-> "hover" ] >> ]_vars
  /\ (Escaped /\ controller.hasPointerPosition)
       ~> (HoverDelivered \/ controller.mode # "hover" \/ controller.isDisposed)

\* the forced update after an Escape found nothing under the pointer and
\* reported it
C14_NothingReported ==
  /\ HoverDelivered
  /\ CallsOf(heard, "onHover")[1].element = None
  /\ controller.mode = "hover" /\ controller.lastHoveredElement = None

\* the step is the animation frame of the hover update, in hover mode, right
\* after the pointer moved over the page element A and then over the page
\* element B with no step between; heard'.trail holds the two points
MovedOverTwo(A, B) ==
  /\ heard'.op = "frame" /\ ran'.owner = "hover"
  /\ controller.mode = "hover" /\ ~controller.isDisposed
  /\ Len(heard'.trail) = 2
  /\ getTargetElementAtFast(heard'.trail[1], attached) = Some(A)
  /\ getTargetElementAtFast(heard'.trail[2], attached) = Some(B)

hoverCall(element) ==
  [ name |-> "onHover", element |-> element, modifiers |-> defaultModifiers,
    mode |-> "hover" ]

\* a pointer move from the page hit-tests nothing and reports nothing
MovesReportNothing ==
  EventOf(MoveTypes) /\ FromPage => heard'.tests = <<>> /\ heard'.calls = <<>>

\* C15 as stated: when in hover mode the pointer moves over A and then over
\* B before the animation frame runs, the frame makes one hit-test, at the
\* last recorded position, and one hover callback, which reports B; no step
\* reports A.
C15_OneCallbackReportingB ==
  [][ /\ MovesReportNothing
      /\ \A A \in Elements : \A B \in Elements \ {A} :
           MovedOverTwo(A, B) =>
             /\ heard'.tests = << heard'.trail[2] >>
             /\ heard'.tests = << controller.lastClientX >>
             /\ CallsOf(heard', "onHover") = << hoverCall(Some(B)) >> ]_vars

\* C15, amended: the frame makes one hit-test, at the last recorded
\* position, and at most one hover callback: none when B is the element last
\* reported and the update is not a forced one, and otherwise one, which
\* reports B; no step reports A.
C15_AtMostOneCallbackReportingB ==
  [][ /\ MovesReportNothing
      /\ \A A \in Elements : \A B \in Elements \ {A} :
           MovedOverTwo(A, B) =>
             /\ heard'.tests = << heard'.trail[2] >>
             /\ heard'.tests = << controller.lastClientX >>
             /\ CallsOf(heard', "onHover") =
                  IF controller.lastHoveredElement = Some(B) /\ ~ran'.forceUpdate
                  THEN <<>> ELSE << hoverCall(Some(B)) >>
             /\ controller'.lastHoveredElement = Some(B) ]_vars

\* the pointer moved over e1 and then over e2, and the frame reported e2
C15_SecondReported ==
  /\ heard.op = "frame" /\ heard.trail = <<1, 2>>
  /\ heard.tests = <<2>>
  /\ CallsOf(heard, "onHover") = << hoverCall(Some("e2")) >>
  /\ controller.lastHoveredElement = Some("e2")

\* click, double-click, context menu, key-up, key-press, the touch events
\* and wheel
SuppressedKinds ==
  {"click", "dblclick", "contextmenu", "keyup", "keypress", "wheel"} \cup BLOCKED_TOUCH_EVENTS

\* C16: while the controller is not disposed, every event of these kinds
\* from the page is stopped before a handler of the page sees it, and its
\* default action is prevented when it is cancelable.
C16_PageInputSuppressed ==
  [][ EventOf(SuppressedKinds) /\ FromPage /\ ~controller.isDisposed =>
        /\ heard'.stopped
        /\ heard'.event.cancelable => heard'.prevented ]_vars

C18_UiMoveClearsHover ==
  [][ EventOf(MoveTypes) /\ FromUi /\ controller.mode = "hover" /\ ~controller.isDisposed =>
        /\ controller'.lastHoveredElement = None
        /\ controller.lastHoveredElement # None =>
             CallsOf(heard', "onHover") = << hoverCall(None) >> ]_vars

\* the pointer has just left a hovered element for the editor's UI
C18_HoverCleared ==
  /\ heard.op = "event" /\ heard.event.type \in MoveTypes
  /\ isEventFromEditorUi(heard.event)
  /\ CallsOf(heard, "onHover") = << hoverCall(None) >>
  /\ controller.mode = "hover" /\ controller.lastHoveredElement = None

\* the selection pass of the step answered nothing, or a node of the
\* editor's UI
NothingSelectable ==
  /\ Len(heard'.passes) = 1
  /\ heard'.passes[1] = None \/ isOverlayElement(heard'.passes[1][1])

\* C19: a pointer-down in hover mode whose selection pass finds no
\* selectable target (nothing, or an element of the editor's UI) leaves the
\* mode hover, calls neither the selection nor the deselection callback,
\* leaves the last reported hover element as it is, and leaves a pending
\* hover update scheduled as it was.
C19_NoTargetNoTransition ==
  [][ EventOf(DownTypes) /\ controller.mode = "hover" /\ NothingSelectable =>
        /\ controller'.mode = "hover"
        /\ CallsOf(heard', "onSelect") = <<>>
        /\ CallsOf(heard', "onDeselect") = <<>>
        /\ controller'.lastHoveredElement = controller.lastHoveredElement
        /\ controller'.hoverRafId = controller.hoverRafId
        /\ frames' = frames ]_vars

\* a click for which the engine answered the host, while an element is
\* hovered and a hover update is pending
C19_ClickOnNothing ==
  /\ heard.op = "event" /\ heard.event.type \in DownTypes
  /\ heard.passes = << Some("host") >>
  /\ heard.calls = <<>>
  /\ controller.mode = "hover" /\ controller.lastHoveredElement # None
  /\ controller.hoverRafId # None /\ Len(HoverFrames) = 1

\* the outstanding animation frame callbacks of one owner: "hover" is the
\* event controller's hit-test, "geometry" the position tracker's update and
\* "render" the canvas overlay's
FrameOwners == {"hover", "geometry", "render"}

OutstandingOf(owner) == SelectSeq(frames, LAMBDA f : f.owner = owner)

rafIdOf(owner) ==
  IF owner = "hover" THEN controller.hoverRafId
  ELSE IF owner = "geometry" THEN tracker.rafId
  ELSE overlay.rafId

\* C20: in every reachable state at most one animation frame callback is
\* outstanding for the hover hit-test, at most one for the tracker's geometry
\* update and at most one for the overlay's rendering, whatever pointer
\* moves, scroll and resize signals, changes of the tracked elements and
\* markDirty calls came before; the outstanding one is the one whose handle
\* its owner holds.
C20_OneCallbackPerOwner ==
  \A owner \in FrameOwners :
    /\ Len(OutstandingOf(owner)) <= 1
    /\ rafIdOf(owner) = IF OutstandingOf(owner) = <<>> THEN None
                        ELSE Some(OutstandingOf(owner)[1].id)

\* a scroll signal has just arrived while the geometry update scheduled
\* before the pointer's move and the markDirty call was still outstanding,
\* and so are the hit-test and the rendering
C20_AllThreeOutstanding ==
  /\ heard.op = "scroll"
  /\ Len(frames) = 3
  /\ frames[1].owner = "geometry"
  /\ \A owner \in FrameOwners : Len(OutstandingOf(owner)) = 1

\* editor.start(), which fails at step failAt or not at all: the subsystems
\* of the model, and the transaction manager and the toolbar it creates
Start(failAt) ==
  /\ BecomesEditor("start", NoEvent, NoFrame, start(World, failAt))
  /\ IF ~session.active /\ passes(failAt, 7)
     THEN /\ undoStack' = <<>>
          /\ redoStack' = <<>>
          /\ disposed' = (failAt # 0)
          /\ handles' = [h \in Slots |-> None]
          /\ last' = IF failAt # 0
                     THEN Outcome("dispose", "done", None, <<>>, 0, <<>>, FALSE)
                     ELSE Rejected("init")
     ELSE UNCHANGED << undoStack, redoStack, disposed, handles, last >>
  /\ toolbar' = IF ~session.active /\ failAt = 0 THEN setHistory(0, 0) ELSE toolbar
  /\ UNCHANGED << attached, style, clock, transactionSeq, maxHistory >>

\* editor.stop()
Stop ==
  /\ BecomesEditor("stop", NoEvent, NoFrame, stop(World))
  /\ IF session.active
     THEN /\ undoStack' = <<>>
          /\ redoStack' = <<>>
          /\ disposed' = TRUE
          /\ last' = Outcome("dispose", "done", None, <<>>, 0, <<>>, FALSE)
     ELSE UNCHANGED << undoStack, redoStack, disposed, last >>
  /\ UNCHANGED << attached, style, clock, transactionSeq, maxHistory, handles, toolbar >>

NextSession ==
  \/ \E failAt \in {0} \cup StartSteps : Start(failAt)
  \/ Stop
  \/ \E event \in PagePointerEvents :
       DispatchEvent(event, getTargetElementAtFast(event.clientX, attached))
  \/ RunAnimationFrame
  \/ \E nextY \in {0, MaxScroll} : Scroll(nextY)

SpecSession == InitPaint /\ [][NextSession]_vars

\* the owner of a kind of frame is disposed
isDisposedOf(owner) ==
  IF owner = "hover" THEN controller.isDisposed
  ELSE IF owner = "geometry" THEN tracker.isDisposed
  ELSE overlay.isDisposed

\* the op of the dispose() of the owner of a kind of frame
disposeOpOf(owner) ==
  IF owner = "hover" THEN "dispose"
  ELSE IF owner = "geometry" THEN "disposeTracker"
  ELSE "disposeOverlay"

\* C21: dispose() of the event controller, of the position tracker and of
\* the canvas overlay cancels the animation frame callback the subsystem has
\* pending, so that none of its callbacks is outstanding after the call nor
\* in any later state; and a callback of a disposed subsystem that runs all
\* the same makes no hit-test, reads no geometry, paints nothing, calls no
\* hover or position callback and leaves the three subsystems and the
\* browser's list as they are.
C21_DisposeCancelsAndSilences ==
  /\ [][ \A owner \in FrameOwners :
           heard'.op = disposeOpOf(owner) =>
             /\ isDisposedOf(owner)'
             /\ OutstandingOf(owner)' = <<>>
             /\ rafIdOf(owner)' = None
             /\ \A other \in FrameOwners \ {owner} :
                  OutstandingOf(other)' = OutstandingOf(other) ]_vars
  /\ [](\A owner \in FrameOwners : isDisposedOf(owner) => OutstandingOf(owner) = <<>>)
  /\ [][ heard'.op = "late" =>
           /\ heard'.tests = <<>>
           /\ heard'.calls = <<>>
           /\ controller' = controller /\ tracker' = tracker /\ overlay' = overlay
           /\ frames' = frames ]_vars

\* the hover callback of a disposed controller has just run, in hover mode
\* with a pointer position recorded and elements tracked, and so have the
\* tracker and the overlay been disposed
C21_LateHoverCallback ==
  /\ heard.op = "late" /\ ran.owner = "hover"
  /\ controller.mode = "hover" /\ controller.hasPointerPosition
  /\ tracker.hoverElement # None
  /\ \A owner \in FrameOwners : isDisposedOf(owner)

\* a call on the disposed transaction manager returns nothing, emits no
\* change event, writes no style and leaves the stacks, the id counter, the
\* handles and the toolbar as they are
DisposedManagerRejects ==
  [][ disposed /\ last' # last =>
        /\ last'.ret = None
        /\ last'.events = <<>>
        /\ last'.writes = <<>>
        /\ UNCHANGED << style, undoStack, redoStack, transactionSeq, handles, toolbar >> ]_vars

TrackerCalls == {"setHoverElement", "setSelectionElement", "forceUpdate"}

OverlayCalls == {"setHoverRect", "setSelectionRect", "clear", "markDirty", "render"}

\* setMode on the disposed controller, a setter or forceUpdate on the
\* disposed tracker, a setter, clear, markDirty or render on the disposed
\* overlay: no state changes, nothing is scheduled, nothing is called
DisposedEditorRejects ==
  [][ \/ heard'.op = "setMode" /\ controller.isDisposed
      \/ heard'.op \in TrackerCalls /\ tracker.isDisposed
      \/ heard'.op \in OverlayCalls /\ overlay.isDisposed
      => /\ UNCHANGED << controller, tracker, overlay, frames >>
         /\ heard'.calls = <<>> ]_vars

\* C22: after dispose() every call of a subsystem's interface is rejected:
\* on the transaction manager beginStyle, applyStyle, recordStyle, undo and
\* redo return nothing and no call, clear() included, emits a change event
\* or alters the state; on the event controller setMode changes nothing; on
\* the position tracker and on the canvas overlay the setters, forceUpdate,
\* markDirty and render change no state and schedule nothing.
C22_DisposedRejectsEveryCall == DisposedManagerRejects /\ DisposedEditorRejects

\* the element of a slot ("hover" or "selection") of the tracker, and the
\* rectangle of the slot in the pair emitted last
slotElement(t, slot) == IF slot = "hover" THEN t.hoverElement ELSE t.selectionElement

slotRect(rects, slot) == IF slot = "hover" THEN rects.hover ELSE rects.selection

Detached(element) == element # None /\ element[1] \notin attached

\* the step is a call op of the tracker's or the overlay's interface: the
\* page's own steps leave heard and change the document
Calls(op) == heard'.op = op /\ attached' = attached

\* C23: when the element of the hover slot has left the document, a
\* forceUpdate() of the tracker drops the tracker's reference to it and
\* leaves a null hover rectangle as the one emitted last; when the rectangle
\* emitted last for the slot was not null, the call invokes the position
\* callback exactly once and the pair it passes has hover = null.  The same
\* holds for the selection slot.
C23_DetachedCollapsesToNull ==
  [][ \A slot \in {"hover", "selection"} :
        /\ Calls("forceUpdate") /\ ~tracker.isDisposed
        /\ Detached(slotElement(tracker, slot))
        => /\ slotElement(tracker', slot) = None
           /\ slotRect(tracker'.lastRects, slot) = None
           /\ slotRect(tracker.lastRects, slot) # None =>
                /\ Len(CallsOf(heard', "onPositionUpdate")) = 1
                /\ slotRect(CallsOf(heard', "onPositionUpdate")[1].rects, slot) = None ]_vars

\* a forced update has just reported a null hover rectangle for the first
\* element, which was tracked and drawn and is detached; no selection is
\* tracked
C23_HoverCollapsed ==
  /\ heard.op = "forceUpdate" /\ "e1" \notin attached
  /\ Len(CallsOf(heard, "onPositionUpdate")) = 1
  /\ CallsOf(heard, "onPositionUpdate")[1].rects = [ hover |-> None, selection |-> None ]
  /\ tracker.hoverElement = None /\ tracker.selectionElement = None
  /\ overlay.hoverRect = None

(***************************************************************************)
(* C24: a start() that fails unwinds what it had initialized               *)
(***************************************************************************)
\* the order the subsystems are disposed in: the reverse of the order start()
\* initializes them in
UnwindOrder ==
  << "toolbar", "transactionManager", "positionTracker", "eventController",
     "selectionEngine", "canvasOverlay", "shadowHost" >>

\* the subsystems the step constructed, and those it disposed, in order
subsystemsOf(calls, name) ==
  LET records == SelectSeq(calls, LAMBDA call : call.name = name)
  IN  [i \in 1..Len(records) |-> records[i].subsystem]

\* the step is a start() of an inactive editor that failed
StartFailed == heard'.op = "start" /\ ~session.active /\ ~session'.active

\* C24: when a step of start() fails, the session is inactive afterwards,
\* the subsystems that had been initialized have been disposed in the
\* reverse of the order of initialization, those the model has a state of
\* are disposed and hold no animation frame, and no reference to a
\* subsystem, to the hovered or to the selected element remains
C24_FailedStartUnwinds ==
  [][StartFailed =>
       LET created == subsystemsOf(heard'.calls, "create")
           unwound == subsystemsOf(heard'.calls, "dispose")
           made(subsystem) == \E i \in 1..Len(created) : created[i] = subsystem
       IN  /\ ~session'.active
           /\ unwound = SelectSeq(UnwindOrder, made)
           /\ made("positionTracker") => tracker'.isDisposed
           /\ made("eventController") => controller'.isDisposed
           /\ made("canvasOverlay") => overlay'.isDisposed
           /\ made("transactionManager") => disposed'
           /\ frames' = <<>>
           /\ \A subsystem \in Range(UnwindOrder) : ~session'[subsystem]
           /\ session'.hoveredElement = None
           /\ session'.selectedElement = None]_vars

\* start() failed at its last step, with the seven subsystems initialized,
\* and all seven were disposed
C24_UnwoundAllSeven ==
  /\ heard.op = "start"
  /\ ~session.active
  /\ Len(subsystemsOf(heard.calls, "create")) = 7
  /\ Len(subsystemsOf(heard.calls, "dispose")) = 7
  /\ tracker.isDisposed /\ controller.isDisposed /\ overlay.isDisposed /\ disposed

(***************************************************************************)
(* The locator on documents of four elements.  n1 is a div below <body>;   *)
(* each later element hangs below <body>, below the element before it or   *)
(* in that element's shadow root, and n4 may also hang in the shadow root  *)
(* of n2.  A host's shadow root is open or closed.  n2, n3 and n4 may      *)
(* carry the id "a"; n3 is a div or a span; in a decorated document every  *)
(* element has the class k, and n4 also the class m and a title.           *)
(***************************************************************************)
Nodes == {"n1", "n2", "n3", "n4"}
NodeOrder == <<"n1", "n2", "n3", "n4">>

Topologies ==
  { [n \in Nodes |-> CASE n = "n1" -> Body [] n = "n2" -> p2 [] n = "n3" -> p3
                        [] OTHER -> p4] :
      p2 \in {Body, Inside("n1"), ShadowRootOf("n1")},
      p3 \in {Body, Inside("n2"), ShadowRootOf("n2")},
      p4 \in {Body, Inside("n3"), ShadowRootOf("n3"), ShadowRootOf("n2")} }

\* the elements that host a shadow root
hosts(parent) == { h \in Nodes : \E n \in Nodes : parent[n] = ShadowRootOf(h) }

Modes(parent) ==
  { m \in [Nodes -> {"none", "open", "closed"}] :
      \A n \in Nodes : m[n] = "none" <=> n \notin hosts(parent) }

Ids == { <<>>, <<"a">> }

\* the documents over one topology: its hosts, and no other elements, have a
\* shadow root
DocumentsOver(parent) ==
  { [ order |-> NodeOrder,
      parent |-> parent,
      tag |-> [n \in Nodes |-> IF n = "n3" THEN tag3 ELSE "div"],
      id |-> [n \in Nodes |-> IF n = "n1" THEN <<>> ELSE ids[n]],
      classes |-> [n \in Nodes |-> IF ~decorated THEN <<>>
                                   ELSE IF n = "n4" THEN << <<"k">>, <<"m">> >>
                                   ELSE << <<"k">> >>],
      attrs |-> [n \in Nodes |-> IF decorated /\ n = "n4"
                                 THEN << <<"title", <<"r">>>> >> ELSE <<>>],
      mode |-> mode ] :
      tag3 \in {"div", "span"},
      ids \in [Nodes \ {"n1"} -> Ids], decorated \in BOOLEAN,
      mode \in Modes(parent) }

Documents == UNION { DocumentsOver(parent) : parent \in Topologies }

\* a document whose hosts, and no other elements, have a shadow root
WellFormed(d) == d.mode \in Modes(d.parent)

\* "body > ", the selector buildPathSelector makes for <body> itself
Malformed == Selector(TRUE, <<>>)

InitLocator ==
  /\ createTransactionManager({None}) /\ createToolbar /\ createEditor({TRUE})
  /\ loadPage({ d \in Documents : WellFormed(d) })

\* createElementLocator(element), once
CreateElementLocator(element) ==
  /\ lookup = NoLookup
  /\ lookup' = [ op |-> "createElementLocator", element |-> element,
                 locator |-> << createElementLocator(element, dom) >>,
                 changed |-> FALSE, received |-> FALSE, result |-> None ]
  /\ UNCHANGED << dom, managerVars, editorVars >>

\* locateElement(locator) with the locator made last
LocateElement ==
  /\ lookup.locator # <<>>
  /\ lookup' = [lookup EXCEPT !.op = "locateElement",
                              !.result = locateElement(lookup.locator[1], dom)]
  /\ UNCHANGED << dom, managerVars, editorVars >>

\* the page gives an element an id, or takes it away, once after a locator
\* was made
SetId(element, id) ==
  /\ lookup.locator # <<>>
  /\ ~lookup.changed /\ ~lookup.received
  /\ dom.id[element] # id
  /\ dom' = [dom EXCEPT !.id[element] = id]
  /\ lookup' = [lookup EXCEPT !.op = "setId", !.changed = TRUE, !.result = None]
  /\ UNCHANGED << managerVars, editorVars >>

\* a locator comes back from outside with a malformed selector put before
\* its candidates, or before its host chain
Receive(field) ==
  /\ lookup.locator # <<>>
  /\ ~lookup.received /\ ~lookup.changed
  /\ lookup' = [lookup EXCEPT !.op = "receive", !.received = TRUE, !.result = None,
                              !.locator[1][field] = << Malformed >> \o @]
  /\ UNCHANGED << dom, managerVars, editorVars >>

NextLocator ==
  \/ \E element \in Nodes : CreateElementLocator(element)
  \/ LocateElement
  \/ \E element \in Nodes \ {"n1"}, id \in Ids : SetId(element, id)
  \/ \E field \in {"selectors", "shadowHostChain"} : Receive(field)

SpecLocator == InitLocator /\ [][NextLocator]_vars

(***************************************************************************)
(* C25: an element with an id of its own is located by #id                 *)
(***************************************************************************)
\* the element has a non-empty id that no other element of its query root has
hasOwnId(d, e) ==
  /\ idOf(d, e) # <<>>
  /\ \A other \in Range(d.order) \ {e} :
       getRootNode(d, other) = getRootNode(d, e) => idOf(d, other) # idOf(d, e)

\* #id
IdSelector(id) == Selector(FALSE, << Compound("", id, <<>>, <<>>, 0) >>)

\* the locator made last is as createElementLocator left it, and the
\* document as it was then
Untouched == lookup.locator # <<>> /\ ~lookup.changed /\ ~lookup.received

RECURSIVE hostsResolve(_, _)
hostsResolve(d, e) ==
  LET root == getRootNode(d, e)
      host == root.of
      hostRoot == getQueryRoot(d, host)
      hostSelector == generateCssSelector(host, d, hostRoot)
  IN  root.kind = "shadow" =>
        /\ d.mode[host] = "open"
        /\ hostSelector # None
        /\ isUnique(d, hostRoot, hostSelector[1])
        /\ hostsResolve(d, host)

OnlyPathTells(d, e) ==
  /\ trim(idOf(d, e)) = <<>>
  /\ \A i \in 1..Len(UNIQUE_DATA_ATTRS) : getAttribute(d, e, UNIQUE_DATA_ATTRS[i]) = None
  /\ \A i \in 1..Len(d.classes[e]) :
       ~isUnique(d, getQueryRoot(d, e),
                 Selector(FALSE, << Compound("", <<>>, <<>>, << d.classes[e][i] >>, 0) >>))

\* the candidate that buildPathSelector made: the last one of the locator
pathCandidate(locator) == locator.selectors[Len(locator.selectors)]

\* C26: for an element with no id, no whitelisted attribute and no unique
\* class, in the document or in a shadow root, the path selector of its
\* locator matches, in the document it was made in, the element and nothing
\* else in its query root
C26_PathSelectsElementAlone ==
  Untouched /\ OnlyPathTells(dom, lookup.element) =>
    /\ pathCandidate(lookup.locator[1])
         = buildPathSelector(lookup.element, dom, getQueryRoot(dom, lookup.element))
    /\ ~isMalformed(pathCandidate(lookup.locator[1]))
    /\ querySelectorAll(dom, getQueryRoot(dom, lookup.element),
                        pathCandidate(lookup.locator[1])) = << lookup.element >>

(***************************************************************************)
(* C27: the host chain is walked before any candidate is tried             *)
(***************************************************************************)
\* the root that the chain of host selectors leads to from root, outer to
\* inner, or null if a hop's selector is malformed, matches no element or
\* more than one in the root reached, or matches an element without an open
\* shadow root
RECURSIVE chainLeadsTo(_, _, _)
chainLeadsTo(d, chain, root) ==
  IF chain = <<>> THEN Some(root)
  ELSE LET matched == IF isMalformed(Head(chain)) THEN <<>>
                      ELSE querySelectorAll(d, root, Head(chain))
       IN  IF Len(matched) # 1 THEN None
           ELSE IF d.mode[matched[1]] # "open" THEN None
           ELSE chainLeadsTo(d, Tail(chain), ShadowRootOf(matched[1]))

\* locateElement has just returned for a locator with a host chain
LocatedThroughHosts ==
  lookup.op = "locateElement" /\ lookup.locator[1].shadowHostChain # <<>>

\* C27: when a hop of the host chain fails, locateElement returns null
\* whatever the candidates would match; an element it returns lies in the
\* root the whole chain leads to
C27_HostChainFirst ==
  LocatedThroughHosts =>
    LET final == chainLeadsTo(dom, lookup.locator[1].shadowHostChain, Document) IN
    /\ final = None => lookup.result = None
    /\ lookup.result # None => getRootNode(dom, lookup.result[1]) = final[1]

\* a hop failed and null was returned, although a candidate, tried in the
\* document, matches an element that passes the fingerprint check
C27_FailedHopReturnsNone ==
  /\ LocatedThroughHosts
  /\ chainLeadsTo(dom, lookup.locator[1].shadowHostChain, Document) = None
  /\ lookup.result = None
  /\ tryCandidates(lookup.locator[1].selectors, lookup.locator[1].fingerprint, dom,
                   Document) # None

(***************************************************************************)
(* C28: the candidates are tried in order                                  *)
(***************************************************************************)
\* the selector is well formed and matches, in root, one element only, whose
\* tag is the tag of the fingerprint and whose id is the id of the
\* fingerprint if the fingerprint has one
Passes(d, root, sel, fingerprint) ==
  /\ ~isMalformed(sel)
  /\ LET matched == querySelectorAll(d, root, sel) IN
     /\ Len(matched) = 1
     /\ tagName(d, matched[1]) = fingerprint[1][2]
     /\ \A i \in 2..Len(fingerprint) :
          fingerprint[i][1] = "id" => idOf(d, matched[1]) = fingerprint[i][2]

\* the element matched by the first candidate that passes, or null
FirstPassing(d, root, selectors, fingerprint) ==
  LET passing == { i \in 1..Len(selectors) : Passes(d, root, selectors[i], fingerprint) }
  IN  IF passing = {} THEN None
      ELSE LET first == CHOOSE i \in passing : \A j \in passing : i <= j
           IN  Some(querySelectorAll(d, root, selectors[first])[1])

\* C28: in the root the host chain leads to, locateElement returns the
\* element matched by the first candidate that is well formed, matches one
\* element only and agrees with the fingerprint on the tag and on the id the
\* fingerprint has; the other candidates are skipped, and null is returned
\* if no candidate passes
C28_FirstPassingCandidate ==
  lookup.op = "locateElement" =>
    LET locator == lookup.locator[1]
        final == chainLeadsTo(dom, locator.shadowHostChain, Document)
    IN  final # None =>
          lookup.result = FirstPassing(dom, final[1], locator.selectors, locator.fingerprint)

\* the page gave the element's id to a second element: the first candidate
\* matches both and is skipped, and the element is returned for a later one
C28_LaterCandidateReturned ==
  /\ lookup.op = "locateElement"
  /\ lookup.changed
  /\ lookup.locator[1].shadowHostChain = <<>>
  /\ Len(querySelectorAll(dom, Document, lookup.locator[1].selectors[1])) > 1
  /\ lookup.result = Some(lookup.element)

(***************************************************************************)
(* The editor with the history of its hover callbacks: plain pointer       *)
(* events, Escape, frames, setMode, dispose, and a page that detaches and  *)
(* attaches the element under the pointer.                                 *)
(***************************************************************************)
InitHover ==
  /\ createTransactionManager({None}) /\ createToolbar
  /\ createEditorHearing({TRUE}, NoHoverYet)
  /\ loadPage({Page(Elements)})

NextHover ==
  \/ PlainEvents
  \/ RunAnimationFrame
  \/ \E nextMode \in {"hover", "selecting"} : SetMode(nextMode)
  \/ DisposeController
  \/ Dom

SpecHover == InitHover /\ [][NextHover]_vars

(***************************************************************************)
(* C29: the hover callback reports changes only                            *)
(***************************************************************************)
\* C29: a step of the editor makes one hover callback at most; a hit-test
\* makes it only if it was forced or the element found is not the one the
\* hover callback before it reported; and a callback that is not forced
\* never reports the element that the callback before it, not forced
\* either, reported
C29_HoverReportsChanges ==
  [][attached' = attached /\ CallsOf(heard', "onHover") # <<>> =>
       LET said == CallsOf(heard', "onHover")
           forced == ran'.owner = "hover" /\ ran'.forceUpdate
       IN  /\ Len(said) = 1
           /\ heard'.op = "frame" =>
                \/ forced
                \/ ~heard.hover.said
                \/ said[1].element # heard.hover.element
           /\ ~forced /\ heard.hover.said /\ ~heard.hover.forced =>
                said[1].element # heard.hover.element]_vars

\* a hit-test that was not forced found the element reported last, a page
\* element, and made no callback
C29_SameElementNotReported ==
  /\ heard.op = "frame"
  /\ ran.owner = "hover" /\ ~ran.forceUpdate
  /\ heard.tests # <<>>
  /\ CallsOf(heard, "onHover") = <<>>
  /\ controller.mode = "hover"
  /\ heard.hover.said /\ heard.hover.element # None
  /\ getTargetElementAtFast(controller.lastClientX, attached) = heard.hover.element

(***************************************************************************)
(* C30: the tracker compares with the pair it emitted last                 *)
(***************************************************************************)
\* a slot is null in one pair and not in the other, or a component of its
\* rectangle differs by the tolerance or more
PairsDiffer(a, b) ==
  \E slot \in {"hover", "selection"} :
    \/ (a[slot] = None) # (b[slot] = None)
    \/ /\ a[slot] # None /\ b[slot] # None
       /\ \E component \in {"left", "top", "width", "height"} :
            Abs(a[slot][1][component] - b[slot][1][component]) >= RECT_EPSILON

\* C30: lastRects is the pair the tracker emitted last (it starts as the
\* null pair, is the pair of every update callback and changes in no other
\* step); a step makes the update callback only with a pair that differs
\* from it, and a frame or a forceUpdate of the live tracker makes the
\* callback whenever the pair it computes differs from it
C30_EmitsAgainstLastEmitted ==
  [][attached' = attached =>
       LET emitted == CallsOf(heard', "onPositionUpdate")
           computed == computeRects(tracker, attached, scrollY').rects
       IN  /\ Len(emitted) <= 1
           /\ emitted # <<>> =>
                /\ PairsDiffer(emitted[1].rects, tracker.lastRects)
                /\ tracker'.lastRects = emitted[1].rects
           /\ emitted = <<>> => tracker'.lastRects = tracker.lastRects
           /\ ( /\ ~tracker.isDisposed
                /\ \/ heard'.op = "forceUpdate"
                   \/ heard'.op = "frame" /\ ran'.owner = "geometry" ) =>
                emitted = IF PairsDiffer(computed, tracker.lastRects)
                          THEN << [ name |-> "onPositionUpdate", rects |-> computed ] >>
                          ELSE <<>>]_vars

\* a frame computed a pair that is not the pair emitted last, but within the
\* tolerance of it: nothing was emitted, and the pair emitted last is kept
C30_DriftBelowToleranceKept ==
  /\ heard.op = "frame" /\ ran.owner = "geometry"
  /\ ~tracker.isDisposed
  /\ CallsOf(heard, "getBoundingClientRect") # <<>>
  /\ CallsOf(heard, "onPositionUpdate") = <<>>
  /\ computeRects(tracker, attached, scrollY).rects # tracker.lastRects

(***************************************************************************)
(* C31: markDirty schedules one repaint; render paints only when dirty     *)
(***************************************************************************)
renderFrames(list) == SelectSeq(list, LAMBDA f : f.owner = "render")

\* C31: markDirty on a live overlay sets dirty, and requests a frame only
\* if none is requested; render() paints once when the overlay is dirty and
\* leaves it clean with no frame requested; render() on a clean overlay
\* paints nothing and changes nothing, so the second of two render() calls
\* in a row paints nothing
C31_MarkDirtyAndRender ==
  [][/\ (heard'.op = "markDirty" /\ ~overlay.isDisposed) =>
          /\ overlay'.dirty
          /\ overlay'.rafId # None
          /\ Len(renderFrames(frames')) = 1
          /\ overlay.rafId # None => (frames' = frames /\ overlay'.rafId = overlay.rafId)
          /\ CallsOf(heard', "draw") = <<>>
     /\ (heard'.op = "render" /\ ~overlay.isDisposed /\ overlay.dirty) =>
          /\ Len(CallsOf(heard', "draw")) = 1
          /\ ~overlay'.dirty
          /\ overlay'.rafId = None
          /\ renderFrames(frames') = <<>>
     /\ (heard'.op = "render" /\ ~overlay.dirty) =>
          /\ CallsOf(heard', "draw") = <<>>
          /\ overlay' = overlay
          /\ frames' = frames
     /\ (heard.op = "render" /\ heard'.op = "render") =>
          /\ CallsOf(heard', "draw") = <<>>
          /\ overlay' = overlay
          /\ frames' = frames]_vars

\* render() was called on a live overlay that was clean and painted nothing
C31_RenderPaintedNothing ==
  /\ heard.op = "render"
  /\ ~overlay.isDisposed
  /\ ~overlay.dirty
  /\ CallsOf(heard, "draw") = <<>>

(***************************************************************************)
(* C32: rollback restores the value read by beginStyle                     *)
(***************************************************************************)
\* the handles that are neither committed nor rolled back
OpenHandles == { h \in Slots : handles[h] # None /\ ~handles[h][1].completed }

\* C32: a rollback() that is not refused completes one open handle, leaves
\* in the style of its target the value beginStyle read for its property
\* and changes no other value, returns no transaction and leaves both
\* stacks as they were; a rollback() is refused only after dispose or on a
\* handle that is complete
C32_RollbackRestores ==
  [][Called("rollback") =>
       /\ undoStack' = undoStack
       /\ redoStack' = redoStack
       /\ last'.ret = None
       /\ last'.path \in {"done", "rejected"}
       /\ last'.path = "rejected" => (disposed \/ OpenHandles # Slots)
       /\ last'.path = "done" =>
            /\ ~disposed
            /\ \E h \in OpenHandles :
                 LET hd == handles[h][1] IN
                 /\ handles' = [handles EXCEPT ![h] = Some([hd EXCEPT !.completed = TRUE])]
                 /\ readStyleValue(style', hd.target, hd.property) = hd.beforeValue
                 /\ style' = [style EXCEPT ![hd.target][hd.property] = hd.beforeValue]]_vars

\* a rollback changed the value set() had written, while the undo stack held
\* an entry
C32_RolledBackOverEntry ==
  /\ last.op = "rollback" /\ last.path = "done"
  /\ last.writes # <<>>
  /\ last.writes[1].old # last.writes[1].new
  /\ undoStack # <<>>

(***************************************************************************)
(* C33: a handle is one-shot                                               *)
(***************************************************************************)
\* the handle h is complete after the step, and nothing else about the
\* handles changed
Completes(h) ==
  handles' = [handles EXCEPT ![h] = Some([handles[h][1] EXCEPT !.completed = TRUE])]

\* C33: set(), commit() and rollback() act only through a handle that is
\* not complete: when every handle the caller holds is complete the call is
\* refused, and a refused call writes no style, changes no stack and no
\* handle, and emits no event.  A commit() or rollback() that is not
\* refused, a commit of an unchanged value included, completes the one
\* handle it was called on, the transaction it returns has the id of that
\* handle, and a handle never becomes open again
C33_HandleIsOneShot ==
  [][/\ \A h \in Slots :
          (handles[h] # None /\ handles'[h] # None /\ handles[h][1].completed)
            => (handles'[h][1].completed \/ handles'[h][1].id # handles[h][1].id)
     /\ (Called("set") \/ Called("commit") \/ Called("rollback")) =>
          /\ OpenHandles = {} => last'.path = "rejected"
          /\ last'.path = "rejected" =>
               /\ style' = style
               /\ undoStack' = undoStack /\ redoStack' = redoStack
               /\ handles' = handles
               /\ last'.events = <<>> /\ last'.writes = <<>> /\ last'.ret = None
               /\ toolbar' = toolbar
          /\ (last'.path # "rejected" /\ ~Called("set")) =>
               \E h \in OpenHandles :
                 /\ Completes(h)
                 /\ last'.ret # None => last'.ret[1].id = handles[h][1].id
          /\ (last'.path # "rejected" /\ Called("set")) =>
               (OpenHandles # {} /\ handles' = handles)
          /\ (Called("commit") /\ last'.path = "noop") =>
               (undoStack' = undoStack /\ redoStack' = redoStack /\ last'.ret = None)]_vars

\* commit() was refused by a live manager whose handles are all complete
C33_CommitOnCompleteHandle ==
  /\ last.op = "commit" /\ last.path = "rejected"
  /\ ~disposed
  /\ OpenHandles = {}
  /\ \E h \in Slots : handles[h] # None

(***************************************************************************)
(* C34: the transaction returned and the top of the undo stack             *)
(***************************************************************************)
\* commit(), applyStyle() or recordStyle() returned a transaction
Returned ==
  /\ Called("commit") \/ Called("applyStyle") \/ Called("recordStyle")
  /\ last'.ret # None

\* C34 as stated: the transaction returned is the entry on top of the undo
\* stack after the call, by its id, also when the edit was merged
C34_ReturnedIsTop ==
  [][Returned =>
       /\ undoStack' # <<>>
       /\ Top(undoStack').id = last'.ret[1].id]_vars

\* C34 amended: a returned transaction that was pushed is the entry on top
\* of the undo stack after the call; one that was merged is not in the
\* stack: the top entry keeps its own id, which is not the id returned,
\* and takes the after value and the timestamp of the transaction returned
C34_ReturnedIsTopWhenPushed ==
  [][Returned =>
       /\ undoStack' # <<>>
       /\ last'.events[1].action \in {"push", "merge"}
       /\ last'.events[1].action = "push" => Top(undoStack') = last'.ret[1]
       /\ last'.events[1].action = "merge" =>
            /\ Len(undoStack') = Len(undoStack)
            /\ Top(undoStack').id = Top(undoStack).id
            /\ Top(undoStack').id # last'.ret[1].id
            /\ \A i \in DOMAIN undoStack' : undoStack'[i].id # last'.ret[1].id
            /\ afterOf(Top(undoStack')) = afterOf(last'.ret[1])
            /\ Top(undoStack').timestamp = last'.ret[1].timestamp
            /\ Top(undoStack').merged]_vars

\* commit() returned a transaction that was merged into the top entry,
\* which has another id
C34_ReturnedMerged ==
  /\ last.op = "commit" /\ last.ret # None
  /\ last.events[1].action = "merge"
  /\ undoStack # <<>>
  /\ Top(undoStack).id # last.ret[1].id

(***************************************************************************)
(* C35: the two stacks together hold at most maxHistory entries            *)
(***************************************************************************)
\* C35: in every state the undo stack and the redo stack together hold at
\* most maxHistory entries, and a redo() that succeeds puts its transaction
\* on top of the undo stack and evicts nothing from it
C35_StacksWithinMaxHistory ==
  /\ [](Len(undoStack) + Len(redoStack) <= maxHistory)
  /\ [][(Called("redo") /\ last'.ret # None) =>
          /\ undoStack' = Append(undoStack, last'.ret[1])
          /\ redoStack' = Pop(redoStack)]_vars

\* a redo filled the undo stack to maxHistory
C35_RedoFilledUndoStack ==
  /\ last.op = "redo" /\ last.ret # None
  /\ Len(undoStack) = maxHistory

(***************************************************************************)
(* C36: no hover work while the mode is selecting                          *)
(***************************************************************************)
hoverFrames(list) == SelectSeq(list, LAMBDA f : f.owner = "hover")

\* C36: while the mode is selecting the controller holds no handle of a
\* hover frame and the browser holds no hover frame of it; every hover
\* callback is made in hover mode, in a step that begins and ends in hover
\* mode
C36_SelectingHasNoHoverWork ==
  /\ [](controller.mode = "selecting" =>
          controller.hoverRafId = None /\ hoverFrames(frames) = <<>>)
  /\ [][\A i \in DOMAIN heard'.calls :
          heard'.calls[i].name = "onHover" =>
            /\ heard'.calls[i].mode = "hover"
            /\ controller.mode = "hover"
            /\ controller'.mode = "hover"]_vars

\* a pointer-down selected an element: the mode is selecting, the pointer
\* position is known and no hover frame is left
C36_SelectingAfterPointerDown ==
  /\ heard.op = "event"
  /\ CallsOf(heard, "onSelect") # <<>>
  /\ controller.mode = "selecting"
  /\ controller.hasPointerPosition
  /\ hoverFrames(frames) = <<>>

(***************************************************************************)
(* C37: the pointer over the editor UI and a hit-test scheduled before     *)
(***************************************************************************)
\* the step before was a pointer move that landed on the editor UI
MovedOverUi ==
  heard.op = "event" /\ heard.event.type \in MoveTypes /\ isEventFromEditorUi(heard.event)

\* C37 as stated, for the animation frame that follows the move at once:
\* after a pointer move landed on the editor UI in hover mode, the hover
\* callback reports no element before a pointer move lands on the page
C37_NoHoverAfterUiMove ==
  [][(MovedOverUi /\ controller.mode = "hover" /\ heard'.op = "frame") =>
       \A i \in DOMAIN heard'.calls :
         heard'.calls[i].name = "onHover" => heard'.calls[i].element = None]_vars

(***************************************************************************)
(* C38: a session hovers or selects, never both                            *)
(***************************************************************************)
\* The editor between start() and stop(): the events of the page and of the
\* editor UI, animation frames, scrolls and the page changing.  Nothing in
\* the editor calls setMode from outside the controller.
NextActive ==
  \/ PlainEvents
  \/ RunAnimationFrame
  \/ \E nextY \in {0, MaxScroll} : Scroll(nextY)
  \/ Dom
  \/ \E failAt \in {0} \cup StartSteps : Start(failAt)
  \/ Stop

SpecActive == InitPaint /\ [][NextActive]_vars

\* C38: in an active session the hovered element and the selected element
\* are not both set; an element is selected only in selecting mode and
\* hovered only in hover mode; the position tracker does not track a hover
\* and a selection together
C38_HoverOrSelection ==
  session.active =>
    /\ ~(session.hoveredElement # None /\ session.selectedElement # None)
    /\ session.selectedElement # None => controller.mode = "selecting"
    /\ session.hoveredElement # None => controller.mode = "hover"
    /\ ~(tracker.hoverElement # None /\ tracker.selectionElement # None)

\* a pointer-down selected an element in an active session: the selection
\* is tracked and no hover is
C38_SelectedAndTracked ==
  /\ session.active
  /\ heard.op = "event"
  /\ CallsOf(heard, "onSelect") # <<>>
  /\ session.selectedElement # None
  /\ session.hoveredElement = None
  /\ tracker.selectionElement = session.selectedElement
  /\ tracker.hoverElement = None

(***************************************************************************)
(* C39: the tracker and the element the controller reported last           *)
(***************************************************************************)
\* C39 as stated, for the states a hover hit-test leaves: in an active
\* session in hover mode, once an animation frame has made the hover
\* hit-test, the element the controller reported last, when it is set and
\* attached, is the element in the hover slot of the tracker
C39_HitTestRestoresTracking ==
  [][( /\ heard'.op = "frame" /\ ran'.owner = "hover" /\ heard'.tests # <<>>
       /\ session'.active
       /\ controller'.mode = "hover"
       /\ controller'.lastHoveredElement # None
       /\ controller'.lastHoveredElement[1] \in attached' )
       => tracker'.hoverElement = controller'.lastHoveredElement]_vars

(***************************************************************************)
(* C40: the requests of the background page                                *)
(***************************************************************************)
WEB_EDITOR_V2_ACTIONS == {"ping", "toggle", "start", "stop"}

\* editor.toggle(); it returns state.active, which is x.s.active afterwards
toggle(x, failAt) == IF x.s.active THEN stop(x) ELSE start(x, failAt)

getState(x) == [ active |-> x.s.active, version |-> 2 ]

sendResponse(x, response) ==
  [x EXCEPT !.calls = Append(@, [ name |-> "sendResponse", response |-> response ])]

\* the listener installMessageListener adds, for a request that isV2Request
listener(x, action, failAt) ==
  IF action = "ping"
  THEN sendResponse(x, [ status |-> "pong", active |-> getState(x).active, version |-> 2 ])
  ELSE IF action = "toggle"
  THEN LET x1 == toggle(x, failAt) IN sendResponse(x1, [ active |-> x1.s.active ])
  ELSE IF action = "start"
  THEN sendResponse(start(x, failAt), [ active |-> TRUE ])
  ELSE sendResponse(stop(x), [ active |-> FALSE ])

\* a request arrives; a start() it makes fails at step failAt, or at none
OnMessage(action, failAt) ==
  LET starts == action = "start" \/ (action = "toggle" /\ ~session.active)
      stops == action = "stop" \/ (action = "toggle" /\ session.active)
      created == starts /\ ~session.active /\ passes(failAt, 7)
      disposes == stops /\ session.active
  IN  /\ BecomesEditor("message", NoEvent, NoFrame, listener(World, action, failAt))
      /\ IF created
         THEN /\ undoStack' = <<>>
              /\ redoStack' = <<>>
              /\ disposed' = (failAt # 0)
              /\ handles' = [h \in Slots |-> None]
              /\ last' = IF failAt # 0
                         THEN Outcome("dispose", "done", None, <<>>, 0, <<>>, FALSE)
                         ELSE Rejected("init")
         ELSE IF disposes
         THEN /\ undoStack' = <<>>
              /\ redoStack' = <<>>
              /\ disposed' = TRUE
              /\ last' = Outcome("dispose", "done", None, <<>>, 0, <<>>, FALSE)
              /\ UNCHANGED handles
         ELSE UNCHANGED << undoStack, redoStack, disposed, handles, last >>
      /\ toolbar' = IF starts /\ ~session.active /\ failAt = 0 THEN setHistory(0, 0)
                    ELSE toolbar
      /\ UNCHANGED << attached, style, clock, transactionSeq, maxHistory >>

NextMessages ==
  \/ \E action \in WEB_EDITOR_V2_ACTIONS, failAt \in {0} \cup StartSteps :
       OnMessage(action, failAt)
  \/ \E event \in PagePointerEvents :
       DispatchEvent(event, getTargetElementAtFast(event.clientX, attached))
  \/ RunAnimationFrame

SpecMessages == InitPaint /\ [][NextMessages]_vars

\* C40 as stated: the active field of the response to a request is the
\* active state of the editor once the request is handled
C40_ResponseTellsActive ==
  [][heard'.op = "message" =>
       /\ Len(CallsOf(heard', "sendResponse")) = 1
       /\ CallsOf(heard', "sendResponse")[1].response.active = session'.active]_vars

====
